---- MODULE Spec2Model ----
(***************************************************************************)
(* State-machine model of the Spectrum backend (stefan04com/Spectrum):     *)
(* the distress-alert evaluator (services/distress_alert_service.py), the  *)
(* per-child chat orchestrator (services/openai_summary_service.py) and    *)
(* the request handlers that drive them (routes/child_routes.py,           *)
(* routes/parent_routes.py) on top of the transactional session scope of   *)
(* database.py.                                                            *)
(*                                                                         *)
(* Optional values (Python None / a value) are modelled as the empty set   *)
(* and a singleton set.  Integer primary keys start at 1, so 0 stands for  *)
(* "no row" where the code tests an id for truthiness.  Text that the code *)
(* inspects character by character is a sequence of one-character strings. *)
(***************************************************************************)
EXTENDS Integers, Sequences, FiniteSets, TLC

\* ------------------------------------------------------------------------
\* Bounds of the model
\* ------------------------------------------------------------------------
MaxChildren == 2
MaxLogs == 4
MaxEvaluations == 1
MaxTxn == 4
MaxSessions == 2
MaxLevelLogs == 1
MaxChatMessages == 4
MaxGateMessages == 2
MaxHistoryMessages == 8
MaxMessageLogs == 3
MaxGuidanceChildren == 2
MaxPressCount == 4
MaxDeleteRows == 2
MaxChunks == 2
MaxRollbackTxn == 3
MaxDocs == 4
MaxAge == 11
MaxSpeechTxn == 2

\* ------------------------------------------------------------------------
\* Program constants
\* ------------------------------------------------------------------------
STRESS_LEVEL_THRESHOLD == 4
NEGATIVE_EMOTIONS == {"sad", "very_stressed"}

\* services/openai_summary_service.py
ROW_PREVIEW_LIMIT == 25
SNAPSHOT_LIMIT == 5
DEFAULT_CHAT_HISTORY_LIMIT == 8
MAX_CHAT_HISTORY_LIMIT == 30
PARENT_ROLE == "parent"
ASSISTANT_ROLE == "assistant"
FALLBACK_LABEL == <<"F", "A", "L", "L", "B", "A", "C", "K", "_", "S", "N", "A", "P", "S", "H", "O", "T">>
NO_QUERY == <<"N", "O", "_", "Q", "U", "E", "R", "Y">>
forbidden_tokens ==
    <<<<"i", "n", "s", "e", "r", "t">>,
      <<"u", "p", "d", "a", "t", "e">>,
      <<"d", "e", "l", "e", "t", "e">>,
      <<"d", "r", "o", "p">>,
      <<"a", "l", "t", "e", "r">>,
      <<"t", "r", "u", "n", "c", "a", "t", "e">>,
      <<"g", "r", "a", "n", "t">>,
      <<"r", "e", "v", "o", "k", "e">>,
      <<"c", "o", "m", "m", "e", "n", "t">>,
      <<"-", "-">>,
      <<"/", "*">>,
      <<"*", "/">>>>

\* ------------------------------------------------------------------------
\* Inputs
\* ------------------------------------------------------------------------
\* (stress_level, emotion) pairs sent by the client.  The route accepts
\* stress levels 1..5 and strips the emotion label without folding its case;
\* the pairs sit on both sides of the threshold and of the negative labels.
LogInputs == {<<3, "happy">>, <<4, "happy">>, <<1, "Sad">>}

VARIABLES
    children,            \* ids of the Child rows
    nextChildId,
    task_emotion_logs,   \* committed TaskEmotionLog rows
    nextLogId,
    parent_alerts,       \* committed ParentAlert rows
    nextAlertId,
    clock,               \* source of created_at (datetime.utcnow), strictly increasing per insert
    evaluations,         \* number of direct evaluator calls made so far
    last,                \* outcome of the most recent request
    txn,                 \* overlapping log_task_response requests: position and session state
    commitSeq,           \* number of commits so far
    alertSpan,           \* per alert id: commits seen at its duplicate check, and its own commit
    level_result_logs,   \* LevelResultLog rows
    nextLevelLogId,
    child_events,        \* ChildEvent rows
    speech_button_usage, \* SpeechButtonUsage rows
    child_profiles,      \* ChildProfile rows
    avatars,             \* Avatar rows
    accepted_presses,    \* per (child_id, button_key): sum of the increments of the accepted requests
    parent_chat_sessions,\* ParentChatSession rows
    nextSessionId,
    parent_chat_messages,\* ParentChatMessage rows in insertion order
    nextMessageId,
    chat                 \* the most recent parent_chat request: its inputs and what it did

alertVars == <<children, nextChildId, task_emotion_logs, nextLogId, parent_alerts,
               nextAlertId, clock, evaluations, last>>

raceVars == <<txn, commitSeq, alertSpan>>

storeVars == <<level_result_logs, nextLevelLogId, child_events, speech_button_usage,
               child_profiles, avatars, accepted_presses>>

chatVars == <<parent_chat_sessions, nextSessionId, parent_chat_messages, nextMessageId, chat>>

vars == <<alertVars, raceVars, storeVars, chatVars>>

\* ------------------------------------------------------------------------
\* Small helpers
\* ------------------------------------------------------------------------
Max2(a, b) == IF a >= b THEN a ELSE b

Min2(a, b) == IF a <= b THEN a ELSE b

\* str.lower() on the emotion labels the model uses
LowerLabel(e) == IF e = "Sad" THEN "sad" ELSE e

\* ------------------------------------------------------------------------
\* Text: a str is a sequence of one-character strings
\* ------------------------------------------------------------------------
UpperCase == <<"A","B","C","D","E","F","G","H","I","J","K","L","M",
               "N","O","P","Q","R","S","T","U","V","W","X","Y","Z">>

LowerCase == <<"a","b","c","d","e","f","g","h","i","j","k","l","m",
               "n","o","p","q","r","s","t","u","v","w","x","y","z">>

Whitespace == {" ", "\t", "\n"}

LowerChar(c) ==
    IF \E i \in 1..26 : UpperCase[i] = c
    THEN LowerCase[CHOOSE i \in 1..26 : UpperCase[i] = c]
    ELSE c

UpperChar(c) ==
    IF \E i \in 1..26 : LowerCase[i] = c
    THEN UpperCase[CHOOSE i \in 1..26 : LowerCase[i] = c]
    ELSE c

\* str.lower(), str.upper()
Lower(str) == [i \in 1..Len(str) |-> LowerChar(str[i])]

Upper(str) == [i \in 1..Len(str) |-> UpperChar(str[i])]

RECURSIVE LStrip(_)
LStrip(str) ==
    IF str # <<>> /\ Head(str) \in Whitespace THEN LStrip(Tail(str)) ELSE str

RECURSIVE RStrip(_)
RStrip(str) ==
    IF str # <<>> /\ str[Len(str)] \in Whitespace
    THEN RStrip(SubSeq(str, 1, Len(str) - 1))
    ELSE str

\* str.strip()
Strip(str) == RStrip(LStrip(str))

\* str.rstrip(";")
RECURSIVE RStripSemicolons(_)
RStripSemicolons(str) ==
    IF str # <<>> /\ str[Len(str)] = ";"
    THEN RStripSemicolons(SubSeq(str, 1, Len(str) - 1))
    ELSE str

\* str.endswith, str.startswith, the "in" operator on str
EndsWith(str, suffix) ==
    /\ Len(suffix) <= Len(str)
    /\ SubSeq(str, Len(str) - Len(suffix) + 1, Len(str)) = suffix

RECURSIVE IsPrefix(_, _)
IsPrefix(prefix, str) ==
    \/ prefix = <<>>
    \/ /\ str # <<>>
       /\ Head(prefix) = Head(str)
       /\ IsPrefix(Tail(prefix), Tail(str))

StartsWith(str, prefix) == IsPrefix(prefix, str)

RECURSIVE Contains(_, _)
Contains(str, token) ==
    \/ IsPrefix(token, str)
    \/ str # <<>> /\ Contains(Tail(str), token)

\* ------------------------------------------------------------------------
\* Distress evaluator
\* ------------------------------------------------------------------------
\* the threshold test written with > instead of >=
_is_high_distress_strict(log) ==
    \/ log.stress_level > STRESS_LEVEL_THRESHOLD
    \/ LowerLabel(log.emotion) \in NEGATIVE_EMOTIONS

_is_high_distress(log) ==
    \/ log.stress_level >= STRESS_LEVEL_THRESHOLD
    \/ LowerLabel(log.emotion) \in NEGATIVE_EMOTIONS

\* The alert the query "ORDER BY latest_log_id DESC ... first()" can return:
\* any alert of the child with the greatest latest_log_id.
\* acknowledged alerts left out of the query
TopAlerts_unacknowledged(alerts, child_id) ==
    {a \in alerts : /\ a.child_id = child_id /\ ~a.acknowledged
                    /\ \A b \in alerts : (b.child_id = child_id /\ ~b.acknowledged)
                                          => b.latest_log_id <= a.latest_log_id}

\* the alerts of the child with the greatest latest_log_id
TopAlerts(alerts, child_id) ==
    {a \in alerts : /\ a.child_id = child_id
                    /\ \A b \in alerts : b.child_id = child_id => b.latest_log_id <= a.latest_log_id}

\* the high-water mark lost: the evaluator always behaves as if no alert existed
_last_consumed_log_id_none(alerts, child_id) == {0}

\* Possible results of _last_consumed_log_id: 0 (None) when the child has no
\* alert, otherwise max(latest_log_id, previous_log_id) of a top alert.
_last_consumed_log_id(alerts, child_id) ==
    IF TopAlerts(alerts, child_id) = {}
    THEN {0}
    ELSE {Max2(a.latest_log_id, a.previous_log_id) : a \in TopAlerts(alerts, child_id)}

\* the id filter left out of the query
UnconsumedLogs_no_cutoff(logs, child_id, cutoff) ==
    {l \in logs : l.child_id = child_id}

\* Logs of the child above the cutoff (no filter when the cutoff is falsy).
UnconsumedLogs(logs, child_id, cutoff) ==
    {l \in logs : l.child_id = child_id /\ (cutoff = 0 \/ l.id > cutoff)}

MostRecent(S) == CHOOSE l \in S : \A m \in S : m.created_at <= l.created_at

\* the two most recent high-distress logs: the test applied before the limit
RecentLogs_high_only(logs, child_id, cutoff) ==
    LET U == {l \in UnconsumedLogs(logs, child_id, cutoff) : _is_high_distress(l)}
    IN  IF U = {} THEN <<>>
        ELSE LET first == MostRecent(U)
             IN  IF U \ {first} = {} THEN <<first>>
                 ELSE <<first, MostRecent(U \ {first})>>

\* ORDER BY created_at DESC LIMIT 2
RecentLogs(logs, child_id, cutoff) ==
    LET U == UnconsumedLogs(logs, child_id, cutoff)
    IN  IF U = {} THEN <<>>
        ELSE LET first == MostRecent(U)
             IN  IF U \ {first} = {} THEN <<first>>
                 ELSE <<first, MostRecent(U \ {first})>>

\* the duplicate check left out
ExistingAlerts_none(alerts, child_id, latest_id, previous_id) == {}

ExistingAlerts(alerts, child_id, latest_id, previous_id) ==
    {a \in alerts : /\ a.child_id = child_id
                    /\ a.latest_log_id = latest_id
                    /\ a.previous_log_id = previous_id}

\* What the completion request does, as _ask_openai reads it.
\*   kind "unconfigured": no client was constructed
\*   kind "raises":       chat.completions.create raises
\*   kind "no_choices":   the response has no (or an empty) choices attribute
\*   kind "no_message":   the first choice carries no message object
\*   kind "content":      choices[0].message.content is of the given type:
\*                        "none", "other" (neither str nor list), "str" (text),
\*                        "list" (parts; the text of a part, empty when the
\*                        part has no text)
GeneratorResponse(kind, type, text, parts) ==
    [kind |-> kind, type |-> type, text |-> text, parts |-> parts]

UNCONFIGURED == GeneratorResponse("unconfigured", "none", <<>>, <<>>)

RECURSIVE JoinParts(_)
\* " ".join(part.text for part in message if getattr(part, "text", ""))
JoinParts(parts) ==
    IF parts = <<>> THEN <<>>
    ELSE LET rest == JoinParts(Tail(parts))
         IN  IF Head(parts) = <<>> THEN rest
             ELSE IF \A i \in DOMAIN Tail(parts) : Tail(parts)[i] = <<>> THEN Head(parts)
             ELSE Head(parts) \o <<" ">> \o rest

\* _ask_openai: raised when an exception leaves the function; otherwise
\* value is the empty set (None) or holds the returned text
_ask_openai(response) ==
    IF response.kind \in {"unconfigured", "raises", "no_choices"}
    THEN [raised |-> FALSE, value |-> {}]
    ELSE IF response.kind = "no_message"
    THEN [raised |-> TRUE, value |-> {}]
    ELSE IF response.type = "list"
    THEN [raised |-> FALSE, value |-> {Strip(JoinParts(response.parts))}]
    ELSE IF response.type = "str"
    THEN [raised |-> FALSE, value |-> {Strip(response.text)}]
    ELSE [raised |-> FALSE, value |-> {}]

\* a message produced by the generator
GeneratedMessage(text) ==
    [kind |-> "generated", text |-> text, child |-> 0, tasks |-> <<>>, doc_hint |-> ""]

\* _fallback_message: the template with child.name, the task names of the
\* pair (latest first) and docs[0]["source"] or the fixed phrase
_fallback_message(child_id, task_names, docs) ==
    [kind |-> "template", text |-> <<>>, child |-> child_id, tasks |-> task_names,
     doc_hint |-> IF docs # <<>> THEN docs[1] ELSE "your support plan"]

\* _build_alert_message
_build_alert_message(child_id, task_names, docs, response) ==
    LET ai_message == _ask_openai(response)
    IN  IF ai_message.raised
        THEN [raised |-> TRUE, message |-> GeneratedMessage(<<>>)]
        ELSE IF ai_message.value # {} /\ ai_message.value # {<<>>}
        THEN [raised |-> FALSE,
              message |-> GeneratedMessage(CHOOSE t \in ai_message.value : TRUE)]
        ELSE [raised |-> FALSE, message |-> _fallback_message(child_id, task_names, docs)]

\* the alert row filed without its child
NewAlert_no_child(id, child_id, latest_id, previous_id, message) ==
    [id |-> id, child_id |-> 0, latest_log_id |-> latest_id,
     previous_log_id |-> previous_id, acknowledged |-> FALSE, message |-> message]

NewAlert(id, child_id, latest_id, previous_id, message) ==
    [id |-> id, child_id |-> child_id, latest_log_id |-> latest_id,
     previous_log_id |-> previous_id, acknowledged |-> FALSE, message |-> message]

\* Every outcome evaluate_and_create_distress_alert can have on the rows it
\* can see: ret is the id of the returned alert (0 for None), new the rows
\* it adds to the session, raised whether an exception leaves the call.
\* docs: the sources of the documents _select_reference_docs picks from the
\* corpus; response: what the completion request does.
evaluate_and_create_distress_alert(logs, alerts, child_id, newId, docs, response) ==
    UNION { LET recent_logs == RecentLogs(logs, child_id, cutoff)
            IN  IF Len(recent_logs) < 2
                THEN {[ret |-> 0, new |-> {}, raised |-> FALSE]}
                ELSE IF ~(\A i \in 1..2 : _is_high_distress(recent_logs[i]))
                THEN {[ret |-> 0, new |-> {}, raised |-> FALSE]}
                ELSE LET latest == recent_logs[1]
                         previous == recent_logs[2]
                         existing == ExistingAlerts(alerts, child_id, latest.id, previous.id)
                     IN  IF existing # {}
                         THEN {[ret |-> a.id, new |-> {}, raised |-> FALSE] : a \in existing}
                         ELSE LET built == _build_alert_message(
                                               child_id, <<latest.task_name, previous.task_name>>,
                                               docs, response)
                              IN  IF built.raised
                                  THEN {[ret |-> 0, new |-> {}, raised |-> TRUE]}
                                  ELSE {[ret |-> newId,
                                         new |-> {NewAlert(newId, child_id, latest.id,
                                                           previous.id, built.message)},
                                         raised |-> FALSE]}
          : cutoff \in _last_consumed_log_id(alerts, child_id) }

\* ------------------------------------------------------------------------
\* Chat orchestrator (services/openai_summary_service.py)
\* ------------------------------------------------------------------------
MSG_GENERATION_FAILED == <<"I could not generate a response right now. Please try again in a few minutes.">>

MSG_NOT_ENOUGH_DATA == <<"There is not enough data in the app yet to answer this question about the child.">>

MSG_CRAFT_FAILED == <<"I found relevant data, but I could not craft a response right now. Please check again later.">>

Range(f) == {f[i] : i \in DOMAIN f}

Repeat(x, n) == [i \in 1..n |-> x]

Reverse(seq) == [i \in 1..Len(seq) |-> seq[Len(seq) + 1 - i]]

\* _chat_completion: None when the client is missing, the call raises or the
\* response carries no text; otherwise the text, stripped.
_chat_completion(raw) == {Strip(r) : r \in raw}

\* the token list searched without folding the case of the statement
_is_safe_select_query_case_sensitive(query) ==
    IF query = <<>> THEN FALSE
    ELSE LET stripped == Strip(query)
         IN  IF stripped = <<>> THEN FALSE
             ELSE LET trimmed == IF EndsWith(stripped, <<";">>)
                                 THEN Strip(SubSeq(stripped, 1, Len(stripped) - 1))
                                 ELSE stripped
                      lowered == Lower(trimmed)
                  IN  /\ StartsWith(lowered, <<"s", "e", "l", "e", "c", "t">>)
                      /\ \A i \in DOMAIN forbidden_tokens : ~Contains(trimmed, forbidden_tokens[i])

_is_safe_select_query(query) ==
    IF query = <<>> THEN FALSE
    ELSE LET stripped == Strip(query)
         IN  IF stripped = <<>> THEN FALSE
             ELSE LET trimmed == IF EndsWith(stripped, <<";">>)
                                 THEN Strip(SubSeq(stripped, 1, Len(stripped) - 1))
                                 ELSE stripped
                      lowered == Lower(trimmed)
                  IN  /\ StartsWith(lowered, <<"s", "e", "l", "e", "c", "t">>)
                      /\ \A i \in DOMAIN forbidden_tokens : ~Contains(lowered, forbidden_tokens[i])

_normalize_history_limit(history_limit) ==
    IF history_limit = {} THEN DEFAULT_CHAT_HISTORY_LIMIT
    ELSE Max2(0, Min2(CHOOSE v \in history_limit : TRUE, MAX_CHAT_HISTORY_LIMIT))

\* the child filter left out of the lookup
MatchingSessions_any_child(sessions, child_id, session_id) ==
    {cs \in sessions : cs.id \in session_id}

\* the session of an explicit session_id: the row with that id and that child
MatchingSessions(sessions, child_id, session_id) ==
    {cs \in sessions : cs.id \in session_id /\ cs.child_id = child_id}

\* ORDER BY created_at DESC, id DESC LIMIT n
RECURSIVE NewestFirst(_, _)
NewestFirst(rows, n) ==
    IF n = 0 \/ rows = {} THEN <<>>
    ELSE LET m == CHOOSE r \in rows : \A o \in rows :
                     \/ o.created_at < r.created_at
                     \/ (o.created_at = r.created_at /\ o.id <= r.id)
         IN  <<m>> \o NewestFirst(rows \ {m}, n - 1)

\* the rows returned newest first, as the query yields them
_fetch_chat_history_unreversed(messages, chat_session_id, limit_value) ==
    IF Max2(0, limit_value) = 0 THEN <<>>
    ELSE NewestFirst({m \in Range(messages) : m.session_id = chat_session_id},
                     Max2(0, limit_value))

_fetch_chat_history(messages, chat_session_id, limit_value) ==
    IF Max2(0, limit_value) = 0 THEN <<>>
    ELSE Reverse(NewestFirst({m \in Range(messages) : m.session_id = chat_session_id},
                             Max2(0, limit_value)))

\* role of a stored message in the conversation handed to the generator
_history_to_openai_role(message) ==
    IF message.role = ASSISTANT_ROLE THEN "assistant" ELSE "user"

RowsOf(table, child_id) == Cardinality({r \in table : r.child_id = child_id})

\* the child section added whether or not any table has a row
_gather_structured_snapshot_with_child(child_id) ==
    LET snapshot ==
            Repeat("task_emotion_logs", Min2(SNAPSHOT_LIMIT, RowsOf(task_emotion_logs, child_id)))
            \o Repeat("level_result_logs", Min2(SNAPSHOT_LIMIT, RowsOf(level_result_logs, child_id)))
            \o Repeat("child_events", Min2(SNAPSHOT_LIMIT, RowsOf(child_events, child_id)))
            \o Repeat("speech_button_usage", Min2(SNAPSHOT_LIMIT, RowsOf(speech_button_usage, child_id)))
    IN  IF child_id \in children
        THEN <<"child">> \o snapshot
        ELSE snapshot

\* the sections of the snapshot, one entry per row
_gather_structured_snapshot(child_id) ==
    LET snapshot ==
            Repeat("task_emotion_logs", Min2(SNAPSHOT_LIMIT, RowsOf(task_emotion_logs, child_id)))
            \o Repeat("level_result_logs", Min2(SNAPSHOT_LIMIT, RowsOf(level_result_logs, child_id)))
            \o Repeat("child_events", Min2(SNAPSHOT_LIMIT, RowsOf(child_events, child_id)))
            \o Repeat("speech_button_usage", Min2(SNAPSHOT_LIMIT, RowsOf(speech_button_usage, child_id)))
    IN  IF snapshot # <<>> /\ child_id \in children
        THEN <<"child">> \o snapshot
        ELSE snapshot

NoMeta == [keys |-> {}, executed_sql |-> {}, row_count |-> 0, rows_preview |-> 0,
           history_consumed |-> 0, fallback_snapshot |-> FALSE, reason |-> ""]

\* finalize_with_message: the metadata of a reply that was not narrated
FinalizeMeta(executed_sql, is_fallback_snapshot, reason, history_consumed) ==
    [keys |-> {"executed_sql", "row_count", "history_consumed", "fallback_snapshot", "reason"},
     executed_sql |-> IF is_fallback_snapshot THEN {} ELSE executed_sql,
     row_count |-> 0, rows_preview |-> 0, history_consumed |-> history_consumed,
     fallback_snapshot |-> is_fallback_snapshot, reason |-> reason]

\* the number of rows of the prompt preview stored as the row count
NarratedMeta_preview_count(executed_sql, is_fallback_snapshot, row_count, history_consumed) ==
    [keys |-> {"executed_sql", "row_count", "rows_preview", "history_consumed", "fallback_snapshot"},
     executed_sql |-> IF is_fallback_snapshot THEN {} ELSE executed_sql,
     row_count |-> Min2(row_count, ROW_PREVIEW_LIMIT),
     rows_preview |-> Min2(row_count, ROW_PREVIEW_LIMIT),
     history_consumed |-> history_consumed,
     fallback_snapshot |-> is_fallback_snapshot, reason |-> ""]

\* the metadata of a narrated reply
NarratedMeta(executed_sql, is_fallback_snapshot, row_count, history_consumed) ==
    [keys |-> {"executed_sql", "row_count", "rows_preview", "history_consumed", "fallback_snapshot"},
     executed_sql |-> IF is_fallback_snapshot THEN {} ELSE executed_sql,
     row_count |-> row_count, rows_preview |-> Min2(row_count, ROW_PREVIEW_LIMIT),
     history_consumed |-> history_consumed,
     fallback_snapshot |-> is_fallback_snapshot, reason |-> ""]

\* A reply that skips the narration call.
Finalized(answer, executed_sql, db_executed, reason, history_consumed) ==
    [error |-> "", answer |-> answer, sql |-> executed_sql, rows |-> 0,
     db_executed |-> db_executed, snapshot_used |-> FALSE, narration_calls |-> 0,
     meta |-> FinalizeMeta(executed_sql, FALSE, reason, history_consumed)]

\* A reply narrated from a non-empty row set (statement rows or snapshot).
Narrated(narration, executed_sql, db_executed, is_fallback_snapshot, row_count, history_consumed) ==
    LET final_answer == _chat_completion(narration)
    IN  [error |-> "",
         answer |-> IF final_answer = {} THEN MSG_CRAFT_FAILED ELSE CHOOSE a \in final_answer : TRUE,
         sql |-> IF is_fallback_snapshot THEN {} ELSE executed_sql, rows |-> row_count,
         db_executed |-> db_executed, snapshot_used |-> is_fallback_snapshot, narration_calls |-> 1,
         meta |-> NarratedMeta(executed_sql, is_fallback_snapshot, row_count, history_consumed)]

\* the error text logged as a reply instead of being raised
Raised_as_reply(error, db_executed) ==
    [error |-> "", answer |-> <<error>>, sql |-> {}, rows |-> 0, db_executed |-> db_executed,
     snapshot_used |-> FALSE, narration_calls |-> 0, meta |-> NoMeta]

\* raise ValueError(error): the call ends without a reply
Raised(error, db_executed) ==
    [error |-> error, answer |-> <<>>, sql |-> {}, rows |-> 0, db_executed |-> db_executed,
     snapshot_used |-> FALSE, narration_calls |-> 0, meta |-> NoMeta]

\* The branches of generate_parent_chat_response after the session is
\* resolved.  generated: the raw text of the translation call (empty set
\* when the call fails); executed: the row count the statement yields (empty
\* set when its execution raises); narration: the raw text of the narration.
ChatBranches(child_id, generated, executed, narration, history_consumed) ==
    LET sql_query == _chat_completion(generated)
        snapshot == _gather_structured_snapshot(child_id)
    IN  IF sql_query = {}
        THEN IF snapshot = <<>>
             THEN Finalized(MSG_GENERATION_FAILED, {}, {}, "sql_generation_failed", history_consumed)
             ELSE Narrated(narration, {FALLBACK_LABEL}, {}, TRUE, Len(snapshot), history_consumed)
        ELSE LET stripped == Strip(CHOOSE q \in sql_query : TRUE)
             IN  IF Upper(stripped) = NO_QUERY
                 THEN IF snapshot = <<>>
                      THEN Finalized(MSG_NOT_ENOUGH_DATA, {}, {}, "no_query", history_consumed)
                      ELSE Narrated(narration, {FALLBACK_LABEL}, {}, TRUE, Len(snapshot),
                                    history_consumed)
                 ELSE IF ~_is_safe_select_query(stripped)
                 THEN Raised("The generated query is not safe to execute.", {})
                 ELSE LET sql_without_semicolon == RStripSemicolons(stripped)
                      IN  IF executed = {}
                          THEN Raised("An error occurred while running the query against the database.",
                                      {sql_without_semicolon})
                          ELSE LET row_count == CHOOSE n \in executed : TRUE
                               IN  IF row_count = 0
                                   THEN IF snapshot = <<>>
                                        THEN Finalized(MSG_NOT_ENOUGH_DATA, {sql_without_semicolon},
                                                       {sql_without_semicolon}, "empty_rows",
                                                       history_consumed)
                                        ELSE Narrated(narration, {FALLBACK_LABEL},
                                                      {sql_without_semicolon}, TRUE, Len(snapshot),
                                                      history_consumed)
                                   ELSE Narrated(narration, {sql_without_semicolon},
                                                 {sql_without_semicolon}, FALSE, row_count,
                                                 history_consumed)

\* _log_chat_message
ChatMessage(id, chat_session, role, content, metadata, created_at) ==
    [id |-> id, session_id |-> chat_session.id, child_id |-> chat_session.child_id,
     role |-> role, content |-> content, message_meta |-> metadata, created_at |-> created_at]

\* the answer logged before the question
_finalize_chat_response_swapped(chat_session, question_text, answer_text, assistant_metadata) ==
    << ChatMessage(nextMessageId, chat_session, ASSISTANT_ROLE, answer_text,
                   assistant_metadata, clock + 1),
       ChatMessage(nextMessageId + 1, chat_session, PARENT_ROLE, question_text, NoMeta, clock + 2) >>

\* _finalize_chat_response: the question, then the answer
_finalize_chat_response(chat_session, question_text, answer_text, assistant_metadata) ==
    << ChatMessage(nextMessageId, chat_session, PARENT_ROLE, question_text, NoMeta, clock + 1),
       ChatMessage(nextMessageId + 1, chat_session, ASSISTANT_ROLE, answer_text,
                   assistant_metadata, clock + 2) >>

\* ------------------------------------------------------------------------
\* Request handlers, each one transaction (database.db_session)
\* ------------------------------------------------------------------------
\* ------------------------------------------------------------------------
\* Retrieval-augmented answering (services/rag_service.py)
\* ------------------------------------------------------------------------
MSG_NO_INFORMATION == <<"I could not find enough information, but you can ask ChatGPT directly for more details.">>

\* a retrieved chunk as _collect_contexts records it; the result carries no
\* metadatas and no distances, so the source is the chunk id and the score None
Context(chunk_id, text) == [id |-> chunk_id, text |-> text, source |-> chunk_id, score |-> {}]

\* the loop of _collect_contexts from position idx on: a chunk whose text is
\* missing or empty is skipped
RECURSIVE CollectFrom(_, _, _)
CollectFrom(ids, documents, idx) ==
    IF idx > Len(ids) THEN <<>>
    ELSE LET text == IF idx <= Len(documents) THEN documents[idx] ELSE <<>>
         IN  (IF text = <<>> THEN <<>> ELSE <<Context(ids[idx], text)>>)
             \o CollectFrom(ids, documents, idx + 1)

\* every returned id kept, whatever its text
_collect_contexts_keep_empty(result) ==
    [idx \in 1..Len(result.ids) |->
        Context(result.ids[idx],
                IF idx <= Len(result.documents) THEN result.documents[idx] ELSE <<>>)]

_collect_contexts(result) == CollectFrom(result.ids, result.documents, 1)

\* response.choices[0].message.content.strip() if response.choices else "":
\* raised when the request raises or the content is not a str
CompletionText(response) ==
    IF response.kind = "no_choices" THEN [raised |-> FALSE, text |-> <<>>]
    ELSE IF response.kind = "content" /\ response.type = "str"
    THEN [raised |-> FALSE, text |-> Strip(response.text)]
    ELSE [raised |-> TRUE, text |-> <<>>]

RagRaised(error, calls) ==
    [status |-> error, answer |-> <<>>, sources |-> <<>>, fallback |-> FALSE, note |-> {},
     calls |-> calls]

\* answer_general_question.  configured: an API key is set; embedded: the
\* embedding request succeeds; result: what the collection query returns;
\* response: what the completion request does.  calls lists the external
\* calls made.
answer_general_question(question, configured, embedded, result, response) ==
    LET clean_question == Strip(question)
        contexts == _collect_contexts(result)
        completion == CompletionText(response)
    IN  IF clean_question = <<>> THEN RagRaised("ValueError", <<>>)
        ELSE IF ~configured THEN RagRaised("RuntimeError", <<>>)
        ELSE IF ~embedded THEN RagRaised("raised", <<"embeddings">>)
        ELSE IF completion.raised THEN RagRaised("raised", <<"embeddings", "query", "completions">>)
        ELSE IF contexts = <<>>
        THEN [status |-> "ok",
              answer |-> IF completion.text # <<>> THEN completion.text ELSE MSG_NO_INFORMATION,
              sources |-> <<>>, fallback |-> TRUE, note |-> {"no matches in the library"},
              calls |-> <<"embeddings", "query", "completions">>]
        ELSE [status |-> "ok", answer |-> completion.text, sources |-> contexts,
              fallback |-> FALSE, note |-> {},
              calls |-> <<"embeddings", "query", "completions">>]

\* ------------------------------------------------------------------------
\* Guidance composer (services/guidance_service.py)
\* ------------------------------------------------------------------------
MAX_GUIDANCE_DOCS == 4

\* a ChildProfile row as the routes insert it: guidance is NULL (the empty set)
NewProfile(child_id, notes) == [child_id |-> child_id, notes |-> notes, guidance |-> {}]

\* .order_by(AdviceDoc.id).limit(MAX_GUIDANCE_DOCS); docs are the advice
\* texts of the rows in id order
_fetch_supporting_docs(advice_docs) ==
    SubSeq(advice_docs, 1, Min2(Len(advice_docs), MAX_GUIDANCE_DOCS))

\* the text returned without the strip and the emptiness test
_call_openai_unstripped(response) ==
    IF response.kind = "content" /\ response.type = "str" THEN {response.text} ELSE {}

\* _call_openai: None (the empty set) when no client exists, the request
\* raises, or output_text is not a str or is blank; otherwise the stripped text
_call_openai(response) ==
    IF response.kind = "content" /\ response.type = "str" /\ Strip(response.text) # <<>>
    THEN {Strip(response.text)}
    ELSE {}

\* _fallback_guidance: the intro paragraph, the goals paragraph when the
\* notes are not empty, and the paragraph of up to three advice texts (or the
\* three fixed ones)
_fallback_guidance(child_id, profile, docs) ==
    [kind |-> "fallback", child |-> child_id,
     text |-> <<"intro">> \o (IF profile.notes # "" THEN <<"goals">> ELSE <<>>) \o <<"anchors">>,
     tips |-> IF docs # <<>> THEN SubSeq(docs, 1, Min2(Len(docs), 3)) ELSE <<"defaults">>]

_generate_guidance_snapshot(child_id, profile, docs, response) ==
    LET ai_text == _call_openai(response)
    IN  IF ai_text # {} /\ ai_text # {<<>>}
        THEN [kind |-> "generated", child |-> child_id,
              text |-> CHOOSE t \in ai_text : TRUE, tips |-> <<>>]
        ELSE _fallback_guidance(child_id, profile, docs)

\* (profile.guidance or "").strip() is empty
GuidanceBlank(profile) ==
    \A g \in profile.guidance : \A i \in DOMAIN g.text : g.text[i] \in Whitespace

\* refresh_profile_guidance with force=True.  profile is child.profile as
\* the session holds it: the empty set (None) or the row.  The result is
\* the set of rows the call writes.
refresh_profile_guidance(profile, child_id, advice_docs, response) ==
    { [p EXCEPT !.guidance = {_generate_guidance_snapshot(
                                  child_id, p, _fetch_supporting_docs(advice_docs), response)}]
      : p \in profile }

ProfileOf(profiles, child_id) == {p \in profiles : p.child_id = child_id}

\* the profiles of children made by create_child with empty notes while no
\* generator is configured and no advice exists
CreatedProfiles(ids) ==
    UNION {refresh_profile_guidance({NewProfile(c, "")}, c, <<>>, UNCONFIGURED) : c \in ids}

NoChat == [op |-> "none"]

IdleTxn == [pc |-> "idle", child |-> 0, log |-> {}, cutoff |-> 0, recent |-> <<>>,
            alert |-> {}, checked |-> 0, ret |-> 0]

Init ==
    /\ children = {}
    /\ nextChildId = 1
    /\ task_emotion_logs = {}
    /\ nextLogId = 1
    /\ parent_alerts = {}
    /\ nextAlertId = 1
    /\ clock = 0
    /\ evaluations = 0
    /\ last = [op |-> "init", child |-> 0, status |-> 200, log_id |-> 0, ret |-> 0, created |-> FALSE]
    /\ txn = [t \in 1..MaxTxn |-> IdleTxn]
    /\ commitSeq = 0
    /\ alertSpan = <<>>
    /\ level_result_logs = {}
    /\ nextLevelLogId = 1
    /\ child_events = {}
    /\ speech_button_usage = {}
    /\ child_profiles = {}
    /\ avatars = {}
    /\ accepted_presses = <<>>
    /\ parent_chat_sessions = {}
    /\ nextSessionId = 1
    /\ parent_chat_messages = <<>>
    /\ nextMessageId = 1
    /\ chat = NoChat

\* POST /child/create with a valid payload: the child and its profile are
\* inserted, the child is refreshed and the guidance is generated.
create_child(cap, notes, advice_docs, response) ==
    /\ nextChildId <= cap
    /\ children' = children \cup {nextChildId}
    /\ nextChildId' = nextChildId + 1
    /\ child_profiles' = child_profiles \cup
           refresh_profile_guidance({NewProfile(nextChildId, notes)}, nextChildId,
                                    advice_docs, response)
    /\ last' = [op |-> "create_child", child |-> nextChildId, status |-> 200,
                log_id |-> 0, ret |-> 0, created |-> FALSE, response |-> response]
    /\ UNCHANGED <<task_emotion_logs, nextLogId, parent_alerts, nextAlertId, clock, evaluations>>
    /\ UNCHANGED <<level_result_logs, nextLevelLogId, child_events, speech_button_usage, avatars,
                   accepted_presses>>
    /\ UNCHANGED <<raceVars, chatVars>>

\* PUT /child/<child_id>/profile with a valid payload.  child.profile is
\* loaded by the test at line 387 and the session keeps the loaded value:
\* flush() does not expire it, so when the row had to be inserted the
\* guidance refresh still sees None and writes nothing.
update_child_profile(child_id, notes, advice_docs, response) ==
    /\ IF child_id \notin children
       THEN /\ last' = [op |-> "update_child_profile", child |-> child_id, status |-> 404,
                        log_id |-> 0, ret |-> 0, created |-> FALSE, response |-> response]
            /\ UNCHANGED child_profiles
       ELSE LET loaded == ProfileOf(child_profiles, child_id)
                updated == {[p EXCEPT !.notes = notes] : p \in loaded}
                inserted == IF loaded = {} THEN {NewProfile(child_id, notes)} ELSE {}
                refreshed == refresh_profile_guidance(updated, child_id, advice_docs, response)
            IN  /\ child_profiles' = (child_profiles \ loaded) \cup inserted \cup refreshed
                /\ last' = [op |-> "update_child_profile", child |-> child_id, status |-> 200,
                            log_id |-> 0, ret |-> 0, created |-> inserted # {},
                            response |-> response]
    /\ UNCHANGED <<children, nextChildId, task_emotion_logs, nextLogId, parent_alerts,
                   nextAlertId, clock, evaluations>>
    /\ UNCHANGED <<level_result_logs, nextLevelLogId, child_events, speech_button_usage, avatars,
                   accepted_presses>>
    /\ UNCHANGED <<raceVars, chatVars>>

\* the key of a speech-button payload: button_key, or label when button_key
\* is falsy, stripped and lower-cased
NormalizedKey(button_key, label) ==
    LET button_key_raw == IF button_key # <<>> THEN button_key ELSE label
        normalized_key == Lower(Strip(button_key_raw))
    IN  IF normalized_key = <<>> /\ Strip(label) # <<>>
        THEN Lower(Strip(Strip(label)))
        ELSE normalized_key

\* a later press stored as the count instead of added to it
PressedRow_overwrite(usage, increment, label, category) ==
    [usage EXCEPT !.press_count = increment,
                  !.label = IF label # <<>> THEN label ELSE @,
                  !.category = IF category # <<>> THEN {category} ELSE @]

\* the existing row after a press
PressedRow(usage, increment, label, category) ==
    [usage EXCEPT !.press_count = @ + increment,
                  !.label = IF label # <<>> THEN label ELSE @,
                  !.category = IF category # <<>> THEN {category} ELSE @]

\* POST /child/<child_id>/speech-button.  cap bounds the count of a row.
log_speech_button(cap, child_id, button_key, label_raw, category_raw, increment_raw) ==
    \E label \in {Strip(label_raw)}, category \in {Strip(category_raw)},
       normalized_key \in {NormalizedKey(button_key, label_raw)} :
    LET increment == IF increment_raw.kind = "absent" THEN 1 ELSE increment_raw.value
        request == [op |-> "log_speech_button", child |-> child_id, status |-> 0,
                    log_id |-> 0, ret |-> 0,
                    created |-> FALSE, button_key |-> button_key, label |-> label_raw,
                    increment |-> increment_raw, normalized_key |-> normalized_key]
        rejected(status) ==
            /\ last' = [request EXCEPT !.status = status]
            /\ UNCHANGED <<speech_button_usage, accepted_presses>>
    IN  /\ IF normalized_key = <<>>
           THEN rejected(400)
           ELSE IF increment_raw.kind = "text"
           THEN rejected(400)
           ELSE IF increment < 1
           THEN rejected(400)
           ELSE IF child_id \notin children
           THEN rejected(404)
           ELSE LET usage == {u \in speech_button_usage :
                                 u.child_id = child_id /\ u.button_key = normalized_key}
                    pair == <<child_id, normalized_key>>
                IN  /\ \A u \in usage : u.press_count + increment <= cap
                    /\ increment <= cap
                    /\ speech_button_usage' =
                          IF usage # {}
                          THEN (speech_button_usage \ usage)
                               \cup {PressedRow(u, increment, label, category) : u \in usage}
                          ELSE speech_button_usage
                               \cup {[child_id |-> child_id, button_key |-> normalized_key,
                                       label |-> IF label # <<>> THEN label ELSE normalized_key,
                                       category |-> IF category # <<>> THEN {category} ELSE {},
                                       press_count |-> increment]}
                    /\ accepted_presses' =
                          [x \in DOMAIN accepted_presses \cup {pair} |->
                              (IF x \in DOMAIN accepted_presses THEN accepted_presses[x] ELSE 0)
                              + (IF x = pair THEN increment ELSE 0)]
                    /\ last' = [request EXCEPT !.status = 200]
        /\ UNCHANGED <<children, nextChildId, task_emotion_logs, nextLogId, parent_alerts,
                       nextAlertId, clock, evaluations>>
        /\ UNCHANGED <<level_result_logs, nextLevelLogId, child_events, child_profiles, avatars>>
        /\ UNCHANGED <<raceVars, chatVars>>

\* POST /child/<child_id>/event with an event_type.  Ids continue after the
\* greatest id in the table.
log_event(cap, child_id) ==
    /\ Cardinality(child_events) < cap
    /\ IF child_id \notin children
       THEN /\ last' = [op |-> "log_event", child |-> child_id, status |-> 404,
                        log_id |-> 0, ret |-> 0, created |-> FALSE]
            /\ UNCHANGED child_events
       ELSE \E id \in {1 + (IF child_events = {} THEN 0
                            ELSE CHOOSE i \in {e.id : e \in child_events} :
                                     \A e \in child_events : e.id <= i)} :
               /\ child_events' = child_events \cup {[id |-> id, child_id |-> child_id]}
               /\ last' = [op |-> "log_event", child |-> child_id, status |-> 200,
                           log_id |-> id, ret |-> 0, created |-> TRUE]
    /\ UNCHANGED <<children, nextChildId, task_emotion_logs, nextLogId, parent_alerts,
                   nextAlertId, clock, evaluations>>
    /\ UNCHANGED <<level_result_logs, nextLevelLogId, speech_button_usage, child_profiles,
                   avatars, accepted_presses>>
    /\ UNCHANGED <<raceVars, chatVars>>

\* POST /child/<child_id>/avatar/create with complete traits, the images
\* being generated: the profile is inserted when missing, the avatar is
\* inserted or replaced.
create_avatar(child_id) ==
    /\ IF child_id \notin children
       THEN /\ last' = [op |-> "create_avatar", child |-> child_id, status |-> 404,
                        log_id |-> 0, ret |-> 0, created |-> FALSE]
            /\ UNCHANGED <<child_profiles, avatars>>
       ELSE /\ child_profiles' =
                  IF ProfileOf(child_profiles, child_id) = {}
                  THEN child_profiles \cup {NewProfile(child_id, "")}
                  ELSE child_profiles
            /\ avatars' = avatars \cup {[child_id |-> child_id]}
            /\ last' = [op |-> "create_avatar", child |-> child_id, status |-> 200,
                        log_id |-> 0, ret |-> 0,
                        created |-> \A a \in avatars : a.child_id # child_id]
    /\ UNCHANGED <<children, nextChildId, task_emotion_logs, nextLogId, parent_alerts,
                   nextAlertId, clock, evaluations>>
    /\ UNCHANGED <<level_result_logs, nextLevelLogId, child_events, speech_button_usage,
                   accepted_presses>>
    /\ UNCHANGED <<raceVars, chatVars>>

\* the relationship left at the default cascade: the rows stay
CascadeDelete_save_update(rows, child_id) == rows

\* cascade="all, delete-orphan" on a relationship of Child: the rows left
\* in the table when the child is deleted
CascadeDelete(rows, child_id) == {r \in rows : r.child_id # child_id}

\* DELETE /child/<child_id>.  The task logs are deleted by a bulk statement,
\* the child through the session, which cascades along the relationships of
\* Child and from each chat session to its messages.  speech_button_usage is
\* on no relationship: its rows stay when the database does not enforce
\* foreign keys (SQLite as configured), otherwise the delete fails on them
\* and the request is rolled back.
delete_child(child_id, fk_enforced) ==
    /\ IF child_id \notin children
       THEN /\ last' = [op |-> "delete_child", child |-> child_id, status |-> 404,
                        log_id |-> 0, ret |-> 0, created |-> FALSE]
            /\ UNCHANGED <<children, task_emotion_logs, parent_alerts, level_result_logs,
                           child_events, child_profiles, avatars, parent_chat_sessions,
                           parent_chat_messages>>
       ELSE IF fk_enforced /\ \E u \in speech_button_usage : u.child_id = child_id
       THEN /\ last' = [op |-> "delete_child", child |-> child_id, status |-> 500,
                        log_id |-> 0, ret |-> 0, created |-> FALSE]
            /\ UNCHANGED <<children, task_emotion_logs, parent_alerts, level_result_logs,
                           child_events, child_profiles, avatars, parent_chat_sessions,
                           parent_chat_messages>>
       ELSE \E sessions \in {CascadeDelete(parent_chat_sessions, child_id)} :
               LET gone == {cs.id : cs \in parent_chat_sessions \ sessions}
                   kept(m) == m.session_id \notin gone
               IN  /\ task_emotion_logs' = {l \in task_emotion_logs : l.child_id # child_id}
                   /\ children' = children \ {child_id}
                   /\ child_profiles' = CascadeDelete(child_profiles, child_id)
                   /\ avatars' = CascadeDelete(avatars, child_id)
                   /\ child_events' = CascadeDelete(child_events, child_id)
                   /\ level_result_logs' = CascadeDelete(level_result_logs, child_id)
                   /\ parent_alerts' = CascadeDelete(parent_alerts, child_id)
                   /\ parent_chat_sessions' = sessions
                   /\ parent_chat_messages' = SelectSeq(parent_chat_messages, kept)
                   /\ last' = [op |-> "delete_child", child |-> child_id, status |-> 200,
                               log_id |-> 0, ret |-> 0, created |-> FALSE]
    /\ UNCHANGED <<nextChildId, nextLogId, nextAlertId, clock, evaluations, nextLevelLogId,
                   speech_button_usage, accepted_presses, nextSessionId, nextMessageId, chat>>
    /\ UNCHANGED raceVars

\* GET /child/<child_id>/profile
get_child_profile(child_id, advice_docs, response) ==
    /\ IF child_id \notin children \/ ProfileOf(child_profiles, child_id) = {}
       THEN /\ last' = [op |-> "get_child_profile", child |-> child_id, status |-> 404,
                        log_id |-> 0, ret |-> 0, created |-> FALSE, response |-> response]
            /\ UNCHANGED child_profiles
       ELSE LET loaded == ProfileOf(child_profiles, child_id)
                refreshed == IF \A p \in loaded : GuidanceBlank(p)
                             THEN refresh_profile_guidance(loaded, child_id, advice_docs, response)
                             ELSE loaded
            IN  /\ child_profiles' = (child_profiles \ loaded) \cup refreshed
                /\ last' = [op |-> "get_child_profile", child |-> child_id, status |-> 200,
                            log_id |-> 0, ret |-> 0, created |-> FALSE, response |-> response]
    /\ UNCHANGED <<children, nextChildId, task_emotion_logs, nextLogId, parent_alerts,
                   nextAlertId, clock, evaluations>>
    /\ UNCHANGED <<level_result_logs, nextLevelLogId, child_events, speech_button_usage, avatars,
                   accepted_presses>>
    /\ UNCHANGED <<raceVars, chatVars>>

\* POST /child/<child_id>/task-response with a valid payload.  cap bounds
\* the number of logs; docs and response are what the corpus and the
\* generator give while the alert message is built.  An exception leaving
\* the "with db_session()" block rolls the session back: the flushed log is
\* not committed.
log_task_response(cap, child_id, task_name, stress_level, emotion, docs, response) ==
    /\ nextLogId <= cap
    /\ IF child_id \notin children
       THEN /\ last' = [op |-> "log_task_response", child |-> child_id, status |-> 404,
                        log_id |-> 0, ret |-> 0, created |-> FALSE]
            /\ UNCHANGED <<task_emotion_logs, nextLogId, parent_alerts, nextAlertId, clock>>
       ELSE LET log == [id |-> nextLogId, child_id |-> child_id, task_name |-> task_name,
                        stress_level |-> stress_level, emotion |-> emotion,
                        created_at |-> clock + 1]
                logs == task_emotion_logs \cup {log}
            IN  \E r \in evaluate_and_create_distress_alert(logs, parent_alerts, child_id,
                                                            nextAlertId, docs, response) :
                    IF r.raised
                    THEN /\ last' = [op |-> "log_task_response", child |-> child_id,
                                     status |-> 500, log_id |-> 0, ret |-> 0, created |-> FALSE,
                                     log |-> log, docs |-> docs, response |-> response]
                         /\ UNCHANGED <<task_emotion_logs, nextLogId, parent_alerts,
                                        nextAlertId, clock>>
                    ELSE /\ task_emotion_logs' = logs
                         /\ nextLogId' = nextLogId + 1
                         /\ clock' = clock + 1
                         /\ parent_alerts' = parent_alerts \cup r.new
                         /\ nextAlertId' = IF r.new = {} THEN nextAlertId ELSE nextAlertId + 1
                         /\ last' = [op |-> "log_task_response", child |-> child_id,
                                     status |-> 200, log_id |-> log.id, ret |-> r.ret,
                                     created |-> r.new # {},
                                     log |-> log, docs |-> docs, response |-> response]
    /\ UNCHANGED <<children, nextChildId, evaluations>>
    /\ UNCHANGED <<raceVars, storeVars, chatVars>>

\* A direct call of the evaluator in a transaction of its own.
evaluate_call(child_id) ==
    /\ evaluations < MaxEvaluations
    /\ child_id \in children
    /\ \E r \in evaluate_and_create_distress_alert(task_emotion_logs, parent_alerts, child_id,
                                                    nextAlertId, <<>>, UNCONFIGURED) :
            /\ parent_alerts' = parent_alerts \cup r.new
            /\ nextAlertId' = IF r.new = {} THEN nextAlertId ELSE nextAlertId + 1
            /\ last' = [op |-> "evaluate", child |-> child_id, status |-> 200,
                        log_id |-> 0, ret |-> r.ret, created |-> r.new # {}]
    /\ evaluations' = evaluations + 1
    /\ UNCHANGED <<children, nextChildId, task_emotion_logs, nextLogId, clock>>
    /\ UNCHANGED <<raceVars, storeVars, chatVars>>

\* ------------------------------------------------------------------------
\* Level results and the parent chat request
\* ------------------------------------------------------------------------
log_level_result(child_id) ==
    /\ nextLevelLogId <= MaxLevelLogs
    /\ child_id \in children
    /\ level_result_logs' = level_result_logs \cup {[id |-> nextLevelLogId, child_id |-> child_id]}
    /\ nextLevelLogId' = nextLevelLogId + 1
    /\ last' = [op |-> "log_level_result", child |-> child_id, status |-> 200,
                log_id |-> nextLevelLogId, ret |-> 0, created |-> FALSE]
    /\ UNCHANGED <<children, nextChildId, task_emotion_logs, nextLogId, parent_alerts,
                   nextAlertId, clock, evaluations, raceVars, child_events,
                   speech_button_usage, child_profiles, avatars, accepted_presses, chatVars>>

ChatInputs(child_id, question, session_id, history_limit, generated, executed) ==
    [op |-> "parent_chat", child |-> child_id, question |-> question,
     session_id |-> session_id, history_limit |-> history_limit, generated |-> generated,
     executed |-> executed]

\* a request that ends before the generator is asked
ChatRejected(inputs, status, error, resolved) ==
    [op |-> inputs.op, child |-> inputs.child, question |-> inputs.question,
     session_id |-> inputs.session_id, history_limit |-> inputs.history_limit,
     generated |-> {}, executed |-> {},
     status |-> status, error |-> error, resolved |-> resolved, history |-> <<>>,
     answer |-> <<>>, sql |-> {}, rows |-> 0, db_executed |-> {}, snapshot_used |-> FALSE,
     translation_calls |-> 0, narration_calls |-> 0, message_ids |-> <<>>]

ChatOutcome(inputs, branch, resolved, history, message_ids) ==
    [op |-> inputs.op, child |-> inputs.child, question |-> inputs.question,
     session_id |-> inputs.session_id, history_limit |-> inputs.history_limit,
     generated |-> inputs.generated, executed |-> inputs.executed,
     status |-> IF branch.error = "" THEN 200 ELSE 400, error |-> branch.error,
     resolved |-> resolved, history |-> history,
     answer |-> branch.answer, sql |-> branch.sql, rows |-> branch.rows,
     db_executed |-> branch.db_executed, snapshot_used |-> branch.snapshot_used,
     translation_calls |-> 1, narration_calls |-> branch.narration_calls,
     message_ids |-> message_ids]

\* POST /parent/chat/<child_id>: the route and generate_parent_chat_response
\* in one transaction.  The route answers inside the "with" block, so the
\* session commits on every path, the error replies included.
parent_chat(cap, child_id, question, session_id, history_limit, generated, executed, narration) ==
    LET inputs == ChatInputs(child_id, question, session_id, history_limit, generated, executed)
        trimmed_question == Strip(question)
        normalized_history_limit == _normalize_history_limit(history_limit)
        found == MatchingSessions(parent_chat_sessions, child_id, session_id)
    IN  /\ Len(parent_chat_messages) + 2 <= cap
        /\ session_id = {} => nextSessionId <= MaxSessions
        /\ IF question = <<>>
           THEN /\ chat' = ChatRejected(inputs, 400, "question is required (route)", 0)
                /\ UNCHANGED <<parent_chat_sessions, nextSessionId, parent_chat_messages,
                               nextMessageId, clock>>
           ELSE IF trimmed_question = <<>>
           THEN /\ chat' = ChatRejected(inputs, 400, "The parent's question is required.", 0)
                /\ UNCHANGED <<parent_chat_sessions, nextSessionId, parent_chat_messages,
                               nextMessageId, clock>>
           ELSE IF session_id # {} /\ found = {}
           THEN /\ chat' = ChatRejected(inputs, 400,
                                        "The specified chat session does not exist for this child.", 0)
                /\ UNCHANGED <<parent_chat_sessions, nextSessionId, parent_chat_messages,
                               nextMessageId, clock>>
           ELSE \E chat_session \in (IF session_id # {} THEN found
                                     ELSE {[id |-> nextSessionId, child_id |-> child_id]}),
                   branch \in {ChatBranches(child_id, generated, executed, narration,
                                            normalized_history_limit)} :
                \E history_messages \in {_fetch_chat_history(parent_chat_messages, chat_session.id,
                                                             normalized_history_limit)},
                   logged \in {IF branch.error = ""
                               THEN _finalize_chat_response(chat_session, trimmed_question,
                                                            branch.answer, branch.meta)
                               ELSE <<>>} :
                    /\ parent_chat_sessions' = parent_chat_sessions \cup {chat_session}
                    /\ nextSessionId' = IF session_id = {} THEN nextSessionId + 1 ELSE nextSessionId
                    /\ parent_chat_messages' = parent_chat_messages \o logged
                    /\ nextMessageId' = nextMessageId + Len(logged)
                    /\ clock' = clock + Len(logged)
                    /\ chat' = ChatOutcome(inputs, branch, chat_session.id,
                                           [i \in 1..Len(history_messages) |-> history_messages[i].id],
                                           [i \in 1..Len(logged) |-> logged[i].id])
        /\ last' = [op |-> "parent_chat", child |-> child_id, status |-> chat'.status,
                    log_id |-> 0, ret |-> 0, created |-> FALSE]
        /\ UNCHANGED <<children, nextChildId, task_emotion_logs, nextLogId, parent_alerts,
                       nextAlertId, evaluations, raceVars, storeVars>>

\* ------------------------------------------------------------------------
\* log_task_response as overlapping transactions.  Every statement of a
\* session sees the committed rows and the rows the session itself has
\* flushed (read committed); commit publishes the session's rows at once.
\* ------------------------------------------------------------------------
RaceStressInputs == {3, 5}

VisibleLogs(t) == task_emotion_logs \cup txn[t].log

VisibleAlerts(t) == parent_alerts \cup txn[t].alert

RaceInit ==
    /\ children = {1}
    /\ nextChildId = 2
    /\ task_emotion_logs = {}
    /\ nextLogId = 1
    /\ parent_alerts = {}
    /\ nextAlertId = 1
    /\ clock = 0
    /\ evaluations = 0
    /\ last = [op |-> "create_child", child |-> 1, status |-> 200, log_id |-> 0, ret |-> 0, created |-> FALSE]
    /\ txn = [t \in 1..MaxTxn |-> IdleTxn]
    /\ commitSeq = 0
    /\ alertSpan = <<>>
    /\ level_result_logs = {}
    /\ nextLevelLogId = 1
    /\ child_events = {}
    /\ speech_button_usage = {}
    /\ child_profiles = CreatedProfiles({1})
    /\ avatars = {}
    /\ accepted_presses = <<>>
    /\ parent_chat_sessions = {}
    /\ nextSessionId = 1
    /\ parent_chat_messages = <<>>
    /\ nextMessageId = 1
    /\ chat = NoChat

\* session.get(Child), session.add(log), session.flush()
txn_flush_log(t, child_id, stress_level) ==
    /\ txn[t].pc = "idle"
    /\ \A u \in 1..(t - 1) : txn[u].pc # "idle"
    /\ IF child_id \notin children
       THEN /\ txn' = [txn EXCEPT ![t].pc = "done", ![t].child = child_id]
            /\ UNCHANGED <<nextLogId, clock>>
       ELSE /\ txn' = [txn EXCEPT ![t].pc = "flushed", ![t].child = child_id,
                                  ![t].log = {[id |-> nextLogId, child_id |-> child_id,
                                               task_name |-> "puzzle",
                                               stress_level |-> stress_level, emotion |-> "happy",
                                               created_at |-> clock + 1]}]
            /\ nextLogId' = nextLogId + 1
            /\ clock' = clock + 1
    /\ UNCHANGED <<children, nextChildId, task_emotion_logs, parent_alerts, nextAlertId,
                   evaluations, last, commitSeq, alertSpan, storeVars, chatVars>>

\* cutoff_log_id = _last_consumed_log_id(session, child.id)
txn_read_cutoff(t) ==
    /\ txn[t].pc = "flushed"
    /\ \E cutoff \in _last_consumed_log_id(VisibleAlerts(t), txn[t].child) :
            txn' = [txn EXCEPT ![t].pc = "cutoff", ![t].cutoff = cutoff]
    /\ UNCHANGED <<alertVars, commitSeq, alertSpan, storeVars, chatVars>>

\* recent_logs = query...limit(2).all(), and the two early returns
txn_read_recent(t) ==
    /\ txn[t].pc = "cutoff"
    /\ LET recent_logs == RecentLogs(VisibleLogs(t), txn[t].child, txn[t].cutoff)
       IN  IF Len(recent_logs) < 2 \/ ~(\A i \in 1..2 : _is_high_distress(recent_logs[i]))
           THEN txn' = [txn EXCEPT ![t].pc = "evaluated", ![t].recent = recent_logs]
           ELSE txn' = [txn EXCEPT ![t].pc = "recent", ![t].recent = recent_logs]
    /\ UNCHANGED <<alertVars, commitSeq, alertSpan, storeVars, chatVars>>

\* the duplicate check, then the message, session.add(alert),
\* session.flush(); response is what the generator does
txn_check_and_add(t, response) ==
    /\ txn[t].pc = "recent"
    /\ LET latest == txn[t].recent[1]
           previous == txn[t].recent[2]
           existing == ExistingAlerts(VisibleAlerts(t), txn[t].child, latest.id, previous.id)
           built == _build_alert_message(txn[t].child,
                                         <<latest.task_name, previous.task_name>>,
                                         <<>>, response)
       IN  IF existing # {}
           THEN /\ \E a \in existing :
                      txn' = [txn EXCEPT ![t].pc = "evaluated", ![t].ret = a.id]
                /\ UNCHANGED nextAlertId
           ELSE IF built.raised
           THEN /\ txn' = [txn EXCEPT ![t].pc = "raised"]
                /\ UNCHANGED nextAlertId
           ELSE /\ txn' = [txn EXCEPT ![t].pc = "evaluated", ![t].ret = nextAlertId,
                                      ![t].checked = commitSeq,
                                      ![t].alert = {NewAlert(nextAlertId, txn[t].child,
                                                             latest.id, previous.id,
                                                             built.message)}]
                /\ nextAlertId' = nextAlertId + 1
    /\ UNCHANGED <<children, nextChildId, task_emotion_logs, nextLogId, parent_alerts,
                   clock, evaluations, last, commitSeq, alertSpan, storeVars, chatVars>>

\* leaving the "with db_session()" block: session.commit()
txn_commit(t) ==
    /\ txn[t].pc = "evaluated"
    /\ task_emotion_logs' = task_emotion_logs \cup txn[t].log
    /\ parent_alerts' = parent_alerts \cup txn[t].alert
    /\ commitSeq' = commitSeq + 1
    /\ alertSpan' = [i \in DOMAIN alertSpan \cup {a.id : a \in txn[t].alert} |->
                        IF i \in DOMAIN alertSpan THEN alertSpan[i]
                        ELSE [checked |-> txn[t].checked, committed |-> commitSeq + 1]]
    /\ txn' = [txn EXCEPT ![t].pc = "done"]
    /\ last' = [op |-> "log_task_response", child |-> txn[t].child, status |-> 200,
                log_id |-> (CHOOSE l \in txn[t].log : TRUE).id, ret |-> txn[t].ret,
                created |-> txn[t].alert # {}]
    /\ UNCHANGED <<children, nextChildId, nextLogId, nextAlertId, clock, evaluations,
                   storeVars, chatVars>>

\* the log of the failed request written to the store all the same
txn_rollback_keeps_log(t) ==
    /\ txn[t].pc = "raised"
    /\ task_emotion_logs' = task_emotion_logs \cup txn[t].log
    /\ txn' = [txn EXCEPT ![t].pc = "aborted"]
    /\ last' = [op |-> "log_task_response", child |-> txn[t].child, status |-> 500,
                log_id |-> 0, ret |-> 0, created |-> FALSE]
    /\ UNCHANGED <<children, nextChildId, nextLogId, parent_alerts, nextAlertId, clock,
                   evaluations, commitSeq, alertSpan, storeVars, chatVars>>

\* an exception leaving the "with db_session()" block: session.rollback()
\* and the exception goes on.  The record keeps the log that was dropped.
txn_rollback(t) ==
    /\ txn[t].pc = "raised"
    /\ txn' = [txn EXCEPT ![t].pc = "aborted"]
    /\ last' = [op |-> "log_task_response", child |-> txn[t].child, status |-> 500,
                log_id |-> 0, ret |-> 0, created |-> FALSE]
    /\ UNCHANGED <<children, nextChildId, task_emotion_logs, nextLogId, parent_alerts,
                   nextAlertId, clock, evaluations, commitSeq, alertSpan, storeVars, chatVars>>

\* the generator answers with a choice that carries no message
NO_MESSAGE == GeneratorResponse("no_message", "none", <<>>, <<>>)

\* overlapping requests, some of which fail while the alert message is built
RollbackNext ==
    \/ \E t \in 1..MaxRollbackTxn, s \in RaceStressInputs : txn_flush_log(t, 1, s)
    \/ \E t \in 1..MaxRollbackTxn : txn_read_cutoff(t)
    \/ \E t \in 1..MaxRollbackTxn : txn_read_recent(t)
    \/ \E t \in 1..MaxRollbackTxn, response \in {UNCONFIGURED, NO_MESSAGE} :
            txn_check_and_add(t, response)
    \/ \E t \in 1..MaxRollbackTxn : txn_commit(t)
    \/ \E t \in 1..MaxRollbackTxn : txn_rollback(t)

RollbackSpec == RaceInit /\ [][RollbackNext]_vars

RaceNext ==
    \/ \E t \in 1..MaxTxn, c \in 1..MaxChildren, s \in RaceStressInputs : txn_flush_log(t, c, s)
    \/ \E t \in 1..MaxTxn : txn_read_cutoff(t)
    \/ \E t \in 1..MaxTxn : txn_read_recent(t)
    \/ \E t \in 1..MaxTxn : txn_check_and_add(t, UNCONFIGURED)
    \/ \E t \in 1..MaxTxn : txn_commit(t)

RaceSpec == RaceInit /\ [][RaceNext]_vars

\* ------------------------------------------------------------------------
\* General questions
\* ------------------------------------------------------------------------
RagQuestions == {<<>>, <<" ">>, <<" ", "q", "?">>}

\* the texts a returned chunk can carry: none, a blank one, a plain one
ChunkTexts == {<<>>, <<" ">>, <<"t">>}

RECURSIVE SeqsUpTo(_, _)
SeqsUpTo(S, n) ==
    IF n = 0 THEN {<<>>}
    ELSE LET shorter == SeqsUpTo(S, n - 1)
         IN  shorter \cup {Append(q, x) : q \in {r \in shorter : Len(r) = n - 1}, x \in S}

\* query results of up to MaxChunks ids; the documents list may be shorter
\* than the ids list
RagResults ==
    UNION { {[ids |-> [i \in 1..n |-> i], documents |-> d] : d \in SeqsUpTo(ChunkTexts, n)}
            : n \in 0..MaxChunks }

RagResponses ==
    { GeneratorResponse("raises", "none", <<>>, <<>>),
      GeneratorResponse("no_choices", "none", <<>>, <<>>),
      GeneratorResponse("content", "none", <<>>, <<>>),
      GeneratorResponse("content", "str", <<" ", "a">>, <<>>) }

\* one call of answer_general_question; last keeps the call and what it gave
ask_general_question(question, configured, embedded, result, response) ==
    /\ last' = [op |-> "answer_general_question", child |-> 0, status |-> 200, log_id |-> 0,
                ret |-> 0, created |-> FALSE, question |-> question, configured |-> configured,
                result |-> result,
                response |-> answer_general_question(question, configured, embedded,
                                                     result, response)]
    /\ UNCHANGED <<children, nextChildId, task_emotion_logs, nextLogId, parent_alerts,
                   nextAlertId, clock, evaluations, raceVars, storeVars, chatVars>>

RagNext ==
    \E question \in RagQuestions, configured \in BOOLEAN, embedded \in BOOLEAN,
       result \in RagResults, response \in RagResponses :
        ask_general_question(question, configured, embedded, result, response)

RagSpec == Init /\ [][RagNext]_vars

\* ------------------------------------------------------------------------
\* Speech-button requests
\* ------------------------------------------------------------------------
\* the "increment" member of the payload: absent, an integer, or a text
\* that int() does not accept
IncrementInputs ==
    { [kind |-> "absent", value |-> 0],
      [kind |-> "int", value |-> 0],
      [kind |-> "int", value |-> 3],
      [kind |-> "text", value |-> 0] }

ButtonKeyInputs == {<<>>, <<" ">>, <<" ", "Y", "e", "s">>}

LabelInputs == {<<>>, <<"N", "o", " ">>}

CategoryInputs == {<<>>, <<"f">>}

SpeechChildIds == {1, 2}

SpeechInit ==
    /\ children = {1}
    /\ nextChildId = 2
    /\ task_emotion_logs = {}
    /\ nextLogId = 1
    /\ parent_alerts = {}
    /\ nextAlertId = 1
    /\ clock = 0
    /\ evaluations = 0
    /\ last = [op |-> "create_child", child |-> 1, status |-> 200, log_id |-> 0, ret |-> 0,
               created |-> FALSE]
    /\ txn = [t \in 1..MaxTxn |-> IdleTxn]
    /\ commitSeq = 0
    /\ alertSpan = <<>>
    /\ level_result_logs = {}
    /\ nextLevelLogId = 1
    /\ child_events = {}
    /\ speech_button_usage = {}
    /\ child_profiles = CreatedProfiles({1})
    /\ avatars = {}
    /\ accepted_presses = <<>>
    /\ parent_chat_sessions = {}
    /\ nextSessionId = 1
    /\ parent_chat_messages = <<>>
    /\ nextMessageId = 1
    /\ chat = NoChat

SpeechNext ==
    \E c \in SpeechChildIds, k \in ButtonKeyInputs, l \in LabelInputs, g \in CategoryInputs,
       i \in IncrementInputs :
        log_speech_button(MaxPressCount, c, k, l, g, i)

SpeechSpec == SpeechInit /\ [][SpeechNext]_vars

\* ------------------------------------------------------------------------
\* Profiles and their guidance
\* ------------------------------------------------------------------------
NotesInputs == {"", "goals"}

\* the advice texts of the advice_docs table, in id order
AdviceInputs == {<<>>, <<"tip 1", "tip 2", "tip 3", "tip 4", "tip 5">>}

GuidanceResponses ==
    { UNCONFIGURED,
      GeneratorResponse("raises", "none", <<>>, <<>>),
      GeneratorResponse("content", "none", <<>>, <<>>),
      GeneratorResponse("content", "str", <<>>, <<>>),
      GeneratorResponse("content", "str", <<" ">>, <<>>),
      GeneratorResponse("content", "str", <<" ", "o", "k", " ">>, <<>>) }

\* Child 1 has no profile row: the case the update route provides for.
GuidanceInit ==
    /\ children = {1}
    /\ nextChildId = 2
    /\ task_emotion_logs = {}
    /\ nextLogId = 1
    /\ parent_alerts = {}
    /\ nextAlertId = 1
    /\ clock = 0
    /\ evaluations = 0
    /\ last = [op |-> "init", child |-> 0, status |-> 200, log_id |-> 0, ret |-> 0,
               created |-> FALSE]
    /\ txn = [t \in 1..MaxTxn |-> IdleTxn]
    /\ commitSeq = 0
    /\ alertSpan = <<>>
    /\ level_result_logs = {}
    /\ nextLevelLogId = 1
    /\ child_events = {}
    /\ speech_button_usage = {}
    /\ child_profiles = {}
    /\ avatars = {}
    /\ accepted_presses = <<>>
    /\ parent_chat_sessions = {}
    /\ nextSessionId = 1
    /\ parent_chat_messages = <<>>
    /\ nextMessageId = 1
    /\ chat = NoChat

GuidanceNext ==
    \E notes \in NotesInputs, advice \in AdviceInputs, response \in GuidanceResponses :
        \/ create_child(MaxGuidanceChildren, notes, advice, response)
        \/ \E c \in 1..MaxGuidanceChildren : update_child_profile(c, notes, advice, response)
        \/ \E c \in 1..MaxGuidanceChildren : get_child_profile(c, advice, response)

GuidanceSpec == GuidanceInit /\ [][GuidanceNext]_vars

\* ------------------------------------------------------------------------
\* Task responses of one child while the generator and the corpus vary
\* ------------------------------------------------------------------------
TaskNames == {"puzzle", "story"}

MessageLogInputs == {<<5, "sad">>, <<2, "happy">>, <<4, "neutral">>}

\* sources of the documents selected for the alert, best first
MessageDocs == {<<>>, <<"doc A", "doc B">>}

GeneratorResponses ==
    { UNCONFIGURED,
      GeneratorResponse("raises", "none", <<>>, <<>>),
      GeneratorResponse("no_choices", "none", <<>>, <<>>),
      GeneratorResponse("no_message", "none", <<>>, <<>>),
      GeneratorResponse("content", "none", <<>>, <<>>),
      GeneratorResponse("content", "other", <<>>, <<>>),
      GeneratorResponse("content", "str", <<>>, <<>>),
      GeneratorResponse("content", "str", <<" ">>, <<>>),
      GeneratorResponse("content", "str", <<" ", "o", "k">>, <<>>),
      GeneratorResponse("content", "list", <<>>, <<>>),
      GeneratorResponse("content", "list", <<>>, << <<>> >>),
      GeneratorResponse("content", "list", <<>>, << <<"a">>, <<>>, <<"b">> >>) }

MessageNext ==
    \E name \in TaskNames, i \in MessageLogInputs, docs \in MessageDocs,
       response \in GeneratorResponses :
        log_task_response(MaxMessageLogs, 1, name, i[1], i[2], docs, response)

MessageSpec == RaceInit /\ [][MessageNext]_vars

\* ------------------------------------------------------------------------
\* The chat request over a store with children and level results
\* ------------------------------------------------------------------------
\* child ids of the requests
ChatChildIds == {1, 2}

QUESTION == <<" ", "q", "?", " ">>

\* a missing and a blank question
BlankQuestions == {<<>>, <<" ">>}

SessionInputs == {{}} \cup {{i} : i \in 1..MaxSessions}

SQL_SELECT == <<"S", "E", "L", "E", "C", "T", " ", "1", ";">>

SQL_DROP == <<"d", "r", "o", "p", " ", "t">>

NO_QUERY_PADDED == <<" ", "n", "o", "_", "q", "u", "e", "r", "y", " ">>

NARRATION == <<" ", "o", "k">>

\* What the outside world does during one request: the raw text of the
\* translation call (empty set: the call fails), the number of rows the
\* statement yields (empty set: its execution raises), the raw text of the
\* narration call (empty set: the call fails).
GeneratorScripts ==
    { <<{}, {}, {NARRATION}>>,
      <<{NO_QUERY}, {}, {}>>, <<{NO_QUERY_PADDED}, {}, {NARRATION}>>,
      <<{SQL_SELECT}, {}, {}>>, <<{SQL_SELECT}, {0}, {NARRATION}>>,
      <<{SQL_SELECT}, {1}, {NARRATION}>>, <<{SQL_SELECT}, {1}, {}>>,
      <<{SQL_SELECT}, {ROW_PREVIEW_LIMIT + 1}, {NARRATION}>>,
      <<{SQL_DROP}, {1}, {NARRATION}>> }

\* a store with two children and no activity rows yet
ChatInit ==
    /\ children = {1, 2}
    /\ nextChildId = 3
    /\ task_emotion_logs = {}
    /\ nextLogId = 1
    /\ parent_alerts = {}
    /\ nextAlertId = 1
    /\ clock = 0
    /\ evaluations = 0
    /\ last = [op |-> "create_child", child |-> 2, status |-> 200, log_id |-> 0, ret |-> 0,
               created |-> FALSE]
    /\ txn = [t \in 1..MaxTxn |-> IdleTxn]
    /\ commitSeq = 0
    /\ alertSpan = <<>>
    /\ level_result_logs = {}
    /\ nextLevelLogId = 1
    /\ child_events = {}
    /\ speech_button_usage = {}
    /\ child_profiles = CreatedProfiles({1, 2})
    /\ avatars = {}
    /\ accepted_presses = <<>>
    /\ parent_chat_sessions = {}
    /\ nextSessionId = 1
    /\ parent_chat_messages = <<>>
    /\ nextMessageId = 1
    /\ chat = NoChat

ChatNext ==
    \/ log_level_result(1)
    \/ \E q \in BlankQuestions, sid \in SessionInputs :
            parent_chat(MaxChatMessages, 1, q, sid, {}, {}, {}, {NARRATION})
    \/ \E sid \in SessionInputs, g \in GeneratorScripts :
            parent_chat(MaxChatMessages, 1, QUESTION, sid, {}, g[1], g[2], g[3])

ChatSpec == ChatInit /\ [][ChatNext]_vars

\* ------------------------------------------------------------------------
\* Session resolution: requests of two children on each other's sessions
\* ------------------------------------------------------------------------
SessionNext ==
    \E c \in ChatChildIds, sid \in SessionInputs, g \in GeneratorScripts :
        parent_chat(MaxChatMessages, c, QUESTION, sid, {}, g[1], g[2], g[3])

SessionSpec == ChatInit /\ [][SessionNext]_vars

\* ------------------------------------------------------------------------
\* The safety gate: one request at a time over candidate statements
\* ------------------------------------------------------------------------
GateLeads == {<<>>, <<" ">>}

GateHeads ==
    { <<"s", "e", "l", "e", "c", "t">>,
      <<"S", "E", "L", "E", "C", "T">>,
      <<"S", "e", "l", "e", "c", "t">>,
      <<"s", "e", "l", "e", "c">>,
      <<"w", "i", "t", "h">>,
      <<"N", "O", "_", "Q", "U", "E", "R", "Y">>,
      <<"n", "o", "_", "q", "u", "e", "r", "y">> }

GateBodies ==
    { <<>>,
      <<" ", "1">>,
      <<" ", "u", "p", "d", "a", "t", "e", "d", "_", "a", "t">>,
      <<" ", "a", "-", "-", "b">>,
      <<" ", "/", "*", "x">>,
      <<" ", "x", "*", "/">>,
      <<" ", "1", ";", " ", "s", "e", "l", "e", "c", "t", " ", "2">>,
      <<" ", "1", ";", "d", "r", "o", "p", " ", "t">>,
      <<" ", "I", "n", "s", "e", "r", "t">>,
      <<" ", "D", "E", "L", "E", "T", "E">>,
      <<" ", "a", "l", "t", "e", "r">>,
      <<" ", "t", "r", "u", "n", "c", "a", "t", "e">>,
      <<" ", "g", "r", "a", "n", "t">>,
      <<" ", "r", "e", "v", "o", "k", "e">>,
      <<" ", "c", "o", "m", "m", "e", "n", "t">>,
      <<" ", "1", " ", ";">> }

GateTails == {<<>>, <<";">>, <<";", " ">>, <<";", ";">>}

\* raw texts of the translation call
GateCandidates ==
    {l \o h \o b \o t : l \in GateLeads, h \in GateHeads, b \in GateBodies, t \in GateTails}

\* a store in which child 1 has a level result, so that a snapshot is available
GateInit ==
    /\ children = {1, 2}
    /\ nextChildId = 3
    /\ task_emotion_logs = {}
    /\ nextLogId = 1
    /\ parent_alerts = {}
    /\ nextAlertId = 1
    /\ clock = 0
    /\ evaluations = 0
    /\ last = [op |-> "log_level_result", child |-> 1, status |-> 200, log_id |-> 1, ret |-> 0,
               created |-> FALSE]
    /\ txn = [t \in 1..MaxTxn |-> IdleTxn]
    /\ commitSeq = 0
    /\ alertSpan = <<>>
    /\ level_result_logs = {[id |-> 1, child_id |-> 1]}
    /\ nextLevelLogId = 2
    /\ child_events = {}
    /\ speech_button_usage = {}
    /\ child_profiles = CreatedProfiles({1, 2})
    /\ avatars = {}
    /\ accepted_presses = <<>>
    /\ parent_chat_sessions = {}
    /\ nextSessionId = 1
    /\ parent_chat_messages = <<>>
    /\ nextMessageId = 1
    /\ chat = NoChat

\* one request against the initial store
GateNext ==
    \E c \in ChatChildIds, g \in GateCandidates, x \in {{}, {1}} :
        /\ chat = NoChat
        /\ parent_chat(MaxGateMessages, c, QUESTION, {}, {}, {g}, x, {NARRATION})

GateSpec == GateInit /\ [][GateNext]_vars

\* ------------------------------------------------------------------------
\* History loading: requests with different limits on two sessions of one
\* child; the generator declines and the store has no rows for the child
\* ------------------------------------------------------------------------
HistoryLimitInputs == {{}, {-1}, {0}, {1}, {3}, {31}}

HistoryNext ==
    \E sid \in SessionInputs, h \in HistoryLimitInputs :
        parent_chat(MaxHistoryMessages, 1, QUESTION, sid, h, {NO_QUERY}, {}, {})

HistorySpec == ChatInit /\ [][HistoryNext]_vars

\* ------------------------------------------------------------------------
\* Two children, their rows, and their deletion
\* ------------------------------------------------------------------------
DeleteChildIds == {1, 2}

DeleteInit ==
    /\ children = {1, 2}
    /\ nextChildId = 3
    /\ task_emotion_logs = {}
    /\ nextLogId = 1
    /\ parent_alerts = {}
    /\ nextAlertId = 1
    /\ clock = 0
    /\ evaluations = 0
    /\ last = [op |-> "create_child", child |-> 2, status |-> 200, log_id |-> 0, ret |-> 0,
               created |-> FALSE]
    /\ txn = [t \in 1..MaxTxn |-> IdleTxn]
    /\ commitSeq = 0
    /\ alertSpan = <<>>
    /\ level_result_logs = {}
    /\ nextLevelLogId = 1
    /\ child_events = {}
    /\ speech_button_usage = {}
    /\ child_profiles = CreatedProfiles({1, 2})
    /\ avatars = {}
    /\ accepted_presses = <<>>
    /\ parent_chat_sessions = {}
    /\ nextSessionId = 1
    /\ parent_chat_messages = <<>>
    /\ nextMessageId = 1
    /\ chat = NoChat

\* Child 1 can come to own a row of every kind, child 2 an avatar, events
\* and a speech-button row.
DeleteNext ==
    \/ log_task_response(MaxDeleteRows, 1, "puzzle", 5, "sad", <<>>, UNCONFIGURED)
    \/ log_level_result(1)
    \/ 1 \in children /\ parent_chat(MaxDeleteRows, 1, QUESTION, {}, {}, {NO_QUERY}, {}, {})
    \/ \E c \in DeleteChildIds :
          \/ log_event(MaxDeleteRows, c)
          \/ create_avatar(c)
          \/ log_speech_button(1, c, <<"y", "e", "s">>, <<>>, <<>>,
                               [kind |-> "absent", value |-> 0])
          \/ \E fk_enforced \in BOOLEAN : delete_child(c, fk_enforced)

DeleteSpec == DeleteInit /\ [][DeleteNext]_vars

Next ==
    \/ create_child(MaxChildren, "", <<>>, UNCONFIGURED)
    \/ \E c \in 1..MaxChildren, i \in LogInputs :
            log_task_response(MaxLogs, c, "puzzle", i[1], i[2], <<>>, UNCONFIGURED)
    \/ \E c \in 1..MaxChildren : evaluate_call(c)

Spec == Init /\ [][Next]_vars

\* ------------------------------------------------------------------------
\* Vocabulary of the properties, stated on the stored rows
\* ------------------------------------------------------------------------
HighDistress(l) == l.stress_level >= 4 \/ l.emotion \in {"sad", "Sad", "very_stressed"}

\* the high-water mark: the greatest log id any alert of the child refers to
HighWater(alerts, c) ==
    LET ids == UNION {{a.latest_log_id, a.previous_log_id} : a \in {b \in alerts : b.child_id = c}}
    IN  IF ids = {} THEN 0 ELSE CHOOSE i \in ids : \A j \in ids : j <= i

Unconsumed(logs, alerts, c) == {l \in logs : l.child_id = c /\ l.id > HighWater(alerts, c)}

TwoMostRecent(U) == {l \in U : Cardinality({m \in U : m.created_at > l.created_at}) < 2}

Newest(U) == CHOOSE l \in U : \A m \in U : m.created_at <= l.created_at

\* the step is an evaluation that ran to its end
EvaluationStep == last'.op \in {"log_task_response", "evaluate"} /\ last'.status = 200

SameTriple(a, b) ==
    /\ a.child_id = b.child_id
    /\ a.latest_log_id = b.latest_log_id
    /\ a.previous_log_id = b.previous_log_id

NoDuplicateAlerts == \A a, b \in parent_alerts : SameTriple(a, b) => a = b

\* C1: over any sequence of task-response logging and sequential evaluator
\* calls, an evaluation whose two most recent unconsumed logs are both
\* high-distress creates an alert for exactly that pair (latest first) and
\* returns it, and no two ParentAlert rows ever share
\* (child_id, latest_log_id, previous_log_id).
C1_AlertCreatedOncePerPair ==
    /\ [][ LET c == last'.child
               U == Unconsumed(task_emotion_logs', parent_alerts, c)
               top == TwoMostRecent(U)
           IN  (EvaluationStep /\ Cardinality(U) >= 2 /\ \A l \in top : HighDistress(l))
               => \E a \in parent_alerts' \ parent_alerts :
                     /\ a.child_id = c
                     /\ a.latest_log_id = Newest(top).id
                     /\ {a.previous_log_id} = {l.id : l \in top} \ {a.latest_log_id}
                     /\ last'.ret = a.id
                     /\ parent_alerts' = parent_alerts \cup {a} ]_vars
    /\ []NoDuplicateAlerts

C1_Witness ==
    /\ last.op = "log_task_response"
    /\ last.created
    /\ \E a, b \in parent_alerts :
          /\ a.id = last.ret
          /\ a.latest_log_id = last.log_id
          /\ b.child_id = a.child_id
          /\ b.id # a.id

\* C2: an evaluation returns no alert and adds no ParentAlert row whenever
\* the child has fewer than two unconsumed logs, or at most one of the two
\* most recent unconsumed logs is high-distress.
C2_NoAlertWithoutTwoHighLogs ==
    [][ LET c == last'.child
            U == Unconsumed(task_emotion_logs', parent_alerts, c)
            top == TwoMostRecent(U)
        IN  (EvaluationStep /\ (Cardinality(U) < 2
                                \/ Cardinality({l \in top : HighDistress(l)}) <= 1))
            => (last'.ret = 0 /\ parent_alerts' = parent_alerts) ]_vars

C2_Witness ==
    /\ last.op \in {"log_task_response", "evaluate"}
    /\ last.status = 200
    /\ last.ret = 0
    /\ LET U == Unconsumed(task_emotion_logs, parent_alerts, last.child)
       IN  /\ Cardinality(U) >= 2
           /\ Cardinality({l \in TwoMostRecent(U) : HighDistress(l)}) = 1

\* the alert's latest log is still the newest log of its child
NoNewLogSince(a) ==
    \A l \in task_emotion_logs : l.child_id = a.child_id => l.id <= a.latest_log_id

\* C3 as stated: when an evaluation has created an alert and the evaluator
\* is called again for the same child with no new log in between, the second
\* call returns that same alert and creates no row.
C3_Original ==
    [][ (last.created /\ last'.op = "evaluate" /\ last'.child = last.child)
        => (last'.ret = last.ret /\ parent_alerts' = parent_alerts) ]_vars

\* C3 amended: when an alert exists for a child and no TaskEmotionLog has
\* been inserted for the child since, a further evaluation returns no alert
\* (both logs are consumed) and creates no row, so the alert stays the only
\* row of its pair.
C3_ReEvaluationReturnsNothing ==
    [][ (last'.op = "evaluate"
         /\ \E a \in parent_alerts : a.child_id = last'.child /\ NoNewLogSince(a))
        => (last'.ret = 0 /\ parent_alerts' = parent_alerts /\ NoDuplicateAlerts') ]_vars

C3_Witness ==
    /\ last.op = "evaluate"
    /\ last.ret = 0
    /\ \E a \in parent_alerts : a.child_id = last.child /\ NoNewLogSince(a)

\* the two alerts were added by transactions each of which ran its
\* duplicate check before the other one committed
Overlapped(a, b) ==
    /\ alertSpan[a.id].checked < alertSpan[b.id].committed
    /\ alertSpan[b.id].checked < alertSpan[a.id].committed

\* C4: alert deduplication has a race window: two ParentAlert rows with
\* the same (child_id, latest_log_id, previous_log_id) can be committed (the
\* witness; no uniqueness constraint rejects the second row), and whenever
\* that happens both transactions passed the duplicate check before either
\* of them committed.
C4_DuplicatesOnlyByRace ==
    \A a, b \in parent_alerts : (a # b /\ SameTriple(a, b)) => Overlapped(a, b)

C4_Witness ==
    \E a, b \in parent_alerts : a # b /\ SameTriple(a, b)

\* ------------------------------------------------------------------------
\* Chat claims: vocabulary
\* ------------------------------------------------------------------------
\* a request was handled (a repeated request with the same outcome and no
\* effect leaves every variable as it was)
ChatStep == chat' # chat

\* the session was resolved for a non-empty question
SessionResolved(c) == c.op = "parent_chat" /\ c.resolved # 0

\* the generator answered the translation request with this text
Generated(c) == CHOOSE g \in c.generated : TRUE

\* the text is the NO_QUERY sentinel
IsNoQuery(text) == Upper(Strip(text)) = <<"N", "O", "_", "Q", "U", "E", "R", "Y">>

\* the statement after trimming whitespace and a trailing semicolon
GateTrimmed(text) ==
    LET t == Strip(text)
    IN  IF t # <<>> /\ t[Len(t)] = ";" THEN Strip(SubSeq(t, 1, Len(t) - 1)) ELSE t

Occurs(token, text) ==
    \E i \in 1..(Len(text) - Len(token) + 1) : SubSeq(text, i, i + Len(token) - 1) = token

Denylisted ==
    { <<"i", "n", "s", "e", "r", "t">>,
      <<"u", "p", "d", "a", "t", "e">>,
      <<"d", "e", "l", "e", "t", "e">>,
      <<"d", "r", "o", "p">>,
      <<"a", "l", "t", "e", "r">>,
      <<"t", "r", "u", "n", "c", "a", "t", "e">>,
      <<"g", "r", "a", "n", "t">>,
      <<"r", "e", "v", "o", "k", "e">>,
      <<"c", "o", "m", "m", "e", "n", "t">>,
      <<"-", "-">>,
      <<"/", "*">>,
      <<"*", "/">> }

StartsWithSelect(text) ==
    /\ Len(text) >= 6
    /\ Lower(SubSeq(text, 1, 6)) = <<"s", "e", "l", "e", "c", "t">>

\* the statement must not pass the gate
GateViolation(text) ==
    \E trimmed \in {GateTrimmed(text)} :
        \/ ~StartsWithSelect(trimmed)
        \/ \E lowered \in {Lower(trimmed)}, token \in Denylisted : Occurs(token, lowered)

SessionMessages(messages, sid) == SelectSeq(messages, LAMBDA m : m.session_id = sid)

\* the message of the parent: stored with the label "parent", handed to the
\* generator as a user turn
UserRole(m) == m.role = "parent"

AssistantRole(m) == m.role = "assistant"

\* the step appended exactly the pair (question, answer) to the resolved
\* session and left every earlier message in place
PairAppended ==
    LET n == Len(parent_chat_messages)
    IN  /\ Len(parent_chat_messages') = n + 2
        /\ SubSeq(parent_chat_messages', 1, n) = parent_chat_messages
        /\ LET q == parent_chat_messages'[n + 1]
               a == parent_chat_messages'[n + 2]
           IN  /\ q.session_id = chat'.resolved
               /\ a.session_id = chat'.resolved
               /\ UserRole(q)
               /\ q.content = Strip(chat'.question)
               /\ AssistantRole(a)
               /\ a.content = chat'.answer
               /\ q.id < a.id
               /\ \A i \in 1..n : parent_chat_messages[i].id < q.id

\* every session holds an even number of messages that alternate question,
\* answer in persisted order
Alternates ==
    \A s \in parent_chat_sessions :
        LET ms == SessionMessages(parent_chat_messages, s.id)
        IN  /\ Len(ms) % 2 = 0
            /\ \A i \in 1..Len(ms) : IF i % 2 = 1 THEN UserRole(ms[i]) ELSE AssistantRole(ms[i])
            /\ \A i \in 1..(Len(ms) - 1) : ms[i].id < ms[i + 1].id

\* no table of the snapshot has a row of the child
SnapshotEmpty(child_id) ==
    \A table \in {task_emotion_logs, level_result_logs, child_events, speech_button_usage} :
        \A r \in table : r.child_id # child_id

\* C5: for every generator output other than a failed response or the
\* NO_QUERY sentinel, if the statement, after trimming whitespace and a
\* trailing semicolon, does not start with "select" (in any case) or contains
\* a denylisted token, the call fails with an error, the statement is never
\* executed against the database, and no snapshot fallback is substituted
\* (no reply is produced and nothing is persisted).
C5_UnsafeStatementRejected ==
    (chat.op = "parent_chat" /\ chat.translation_calls = 1 /\ chat.generated # {}
        /\ ~IsNoQuery(Generated(chat)) /\ GateViolation(Generated(chat)))
    => /\ chat.status = 400
       /\ chat.error = "The generated query is not safe to execute."
       /\ chat.db_executed = {}
       /\ ~chat.snapshot_used
       /\ chat.narration_calls = 0
       /\ chat.answer = <<>>
       /\ parent_chat_messages = <<>>

\* a statement that starts with SELECT and is rejected for a token in upper
\* case, while the child has rows a snapshot could have been built from
C5_Witness ==
    /\ chat.op = "parent_chat"
    /\ chat.status = 400
    /\ chat.generated # {}
    /\ StartsWithSelect(GateTrimmed(Generated(chat)))
    /\ Occurs(<<"D", "E", "L", "E", "T", "E">>, Generated(chat))
    /\ ~SnapshotEmpty(chat.child)

\* C6: every chat call that returns normally appends exactly two
\* ParentChatMessage rows to the resolved session and to no other session:
\* first the parent's message holding the question, then one assistant
\* message holding the answer; so a session always holds an even number of
\* messages that alternate question, answer in persisted order.
C6_PairAppendedPerCall ==
    /\ [][ (ChatStep /\ chat'.status = 200)
           => /\ PairAppended
              /\ chat'.resolved \in {s.id : s \in parent_chat_sessions'} ]_vars
    /\ []Alternates

\* the second normal call on one session, after a call on another session
C6_Witness ==
    /\ chat.op = "parent_chat"
    /\ chat.status = 200
    /\ Len(SessionMessages(parent_chat_messages, chat.resolved)) = 4
    /\ parent_chat_messages[1].session_id = chat.resolved
    /\ Cardinality(parent_chat_sessions) >= 2

C8_NoQueryEmptySnapshot ==
    [][ (ChatStep /\ chat'.translation_calls = 1 /\ chat'.generated # {}
            /\ IsNoQuery(Generated(chat')) /\ SnapshotEmpty(chat'.child))
        => /\ chat'.status = 200
           /\ chat'.answer = <<"There is not enough data in the app yet to answer this question about the child.">>
           /\ chat'.narration_calls = 0
           /\ ~chat'.snapshot_used
           /\ PairAppended ]_vars

C8_Witness ==
    /\ chat.op = "parent_chat"
    /\ chat.generated # {}
    /\ IsNoQuery(Generated(chat))
    /\ chat.child \in children
    /\ SnapshotEmpty(chat.child)
    /\ chat.narration_calls = 0
    /\ Len(chat.message_ids) = 2

\* C9: a call with an explicit session_id that does not exist or belongs to
\* a different child fails with the invalid-session error and persists no
\* message in any session; a call without session_id creates a fresh session
\* for the given child, and the messages it persists carry that session's id
\* and child id.  (Calls with a non-blank question.)
C9_SessionResolution ==
    [][ (ChatStep /\ Strip(chat'.question) # <<>>)
        => /\ (chat'.session_id # {}
                 /\ ~\E s \in parent_chat_sessions :
                        s.id \in chat'.session_id /\ s.child_id = chat'.child)
              => /\ chat'.status = 400
                 /\ chat'.error = "The specified chat session does not exist for this child."
                 /\ parent_chat_messages' = parent_chat_messages
                 /\ parent_chat_sessions' = parent_chat_sessions
           /\ chat'.session_id = {}
              => \E s \in parent_chat_sessions' \ parent_chat_sessions :
                    /\ parent_chat_sessions' = parent_chat_sessions \cup {s}
                    /\ \A o \in parent_chat_sessions : o.id # s.id
                    /\ s.child_id = chat'.child
                    /\ chat'.resolved = s.id
                    /\ SubSeq(parent_chat_messages', 1, Len(parent_chat_messages))
                          = parent_chat_messages
                    /\ \A i \in (Len(parent_chat_messages) + 1)..Len(parent_chat_messages') :
                          /\ parent_chat_messages'[i].session_id = s.id
                          /\ parent_chat_messages'[i].child_id = s.child_id ]_vars

\* a request naming a session that holds messages of a different child
C9_Witness ==
    /\ chat.op = "parent_chat"
    /\ chat.error = "The specified chat session does not exist for this child."
    /\ \E s \in parent_chat_sessions :
          /\ s.id \in chat.session_id
          /\ s.child_id # chat.child
          /\ Len(SessionMessages(parent_chat_messages, s.id)) >= 2

\* the requested history_limit clamped to [0, 30], 8 when omitted
EffectiveLimit(history_limit) ==
    IF history_limit = {} THEN 8
    ELSE LET v == CHOOSE x \in history_limit : TRUE
         IN  IF v < 0 THEN 0 ELSE IF v > 30 THEN 30 ELSE v

\* C10: the effective limit is the requested history_limit clamped to
\* [0, 30] (8 when omitted); with effective limit 0 no prior turn is loaded;
\* with limit N the turns loaded are the min(N, count) most recent messages
\* of that session only, oldest first.
C10_HistoryLoading ==
    [][ (ChatStep /\ SessionResolved(chat'))
        => LET own == SessionMessages(parent_chat_messages, chat'.resolved)
               eff == EffectiveLimit(chat'.history_limit)
               k == IF eff < Len(own) THEN eff ELSE Len(own)
           IN  /\ chat'.history = [i \in 1..k |-> own[Len(own) - k + i].id]
               /\ eff = 0 => chat'.history = <<>>
               /\ chat'.status = 200
                  => parent_chat_messages'[Len(parent_chat_messages')].message_meta.history_consumed
                        = eff ]_vars

\* limit 3 on a session of four messages, while a later message of another
\* session exists
C10_Witness ==
    /\ SessionResolved(chat)
    /\ chat.history_limit = {3}
    /\ Len(chat.history) = 3
    /\ Len(SessionMessages(parent_chat_messages, chat.resolved)) = 6
    /\ \E i \in DOMAIN parent_chat_messages :
          /\ parent_chat_messages[i].session_id # chat.resolved
          /\ parent_chat_messages[i].id > chat.history[1]

\* ------------------------------------------------------------------------
\* Alert evaluation: order of the consumed pairs, and frame
\* ------------------------------------------------------------------------
\* C11: per child, the log-id pairs of the alerts grow in creation order:
\* every newly created alert refers only to TaskEmotionLog rows whose id is
\* greater than the latest_log_id and the previous_log_id of every alert
\* created earlier for that child, over any sequence of sequential log
\* insertions and evaluations.
C11_AlertPairsMonotone ==
    /\ [][ \A a \in parent_alerts' \ parent_alerts :
              \A b \in parent_alerts :
                  b.child_id = a.child_id
                  => /\ a.latest_log_id > b.latest_log_id
                     /\ a.latest_log_id > b.previous_log_id
                     /\ a.previous_log_id > b.latest_log_id
                     /\ a.previous_log_id > b.previous_log_id ]_vars
    /\ [](\A a, b \in parent_alerts :
              (a.child_id = b.child_id /\ a.id < b.id)
              => /\ a.latest_log_id < b.previous_log_id
                 /\ a.latest_log_id < b.latest_log_id)

\* the second alert of a child has just been created
C11_Witness ==
    /\ last.op = "log_task_response"
    /\ last.created
    /\ \E a, b \in parent_alerts :
          /\ b.id = last.ret
          /\ a.child_id = b.child_id
          /\ a.id < b.id
          /\ b.previous_log_id > a.latest_log_id

\* C12: one call of evaluate_and_create_distress_alert adds at most one
\* ParentAlert row, for the evaluated child, and leaves every TaskEmotionLog
\* row, every existing ParentAlert row and all rows of other children
\* unchanged (the only other row a task-response request adds is the log the
\* route inserts before the evaluation, for the same child).
C12_EvaluationFrame ==
    [][ EvaluationStep
        => /\ parent_alerts \subseteq parent_alerts'
           /\ Cardinality(parent_alerts' \ parent_alerts) <= 1
           /\ \A a \in parent_alerts' \ parent_alerts : a.child_id = last'.child
           /\ task_emotion_logs \subseteq task_emotion_logs'
           /\ last'.op = "evaluate" => task_emotion_logs' = task_emotion_logs
           /\ \A l \in task_emotion_logs' \ task_emotion_logs :
                 l.child_id = last'.child /\ l.id = last'.log_id
           /\ children' = children
           /\ UNCHANGED <<storeVars, chatVars>> ]_vars

\* an evaluation created an alert while another child has logs and an alert
C12_Witness ==
    /\ last.op = "log_task_response"
    /\ last.created
    /\ \E a \in parent_alerts : a.child_id # last.child
    /\ \E l \in task_emotion_logs : l.child_id # last.child

\* ------------------------------------------------------------------------
\* The alert message
\* ------------------------------------------------------------------------
\* the generator is unconfigured, raises, or returns a malformed or empty
\* response
GeneratorFailed(response) ==
    \/ response.kind \in {"unconfigured", "raises", "no_choices", "no_message"}
    \/ /\ response.kind = "content"
       /\ \/ response.type \in {"none", "other"}
          \/ response.type = "str" /\ \A i \in DOMAIN response.text : response.text[i] = " "
          \/ response.type = "list" /\ \A i \in DOMAIN response.parts : response.parts[i] = <<>>

\* the request's evaluation has an alert to build: with the request's log,
\* the child's two most recent unconsumed logs are both high-distress
AlertDue ==
    LET U == Unconsumed(task_emotion_logs \cup {last'.log}, parent_alerts, last'.child)
    IN  /\ Cardinality(U) >= 2
        /\ \A l \in TwoMostRecent(U) : HighDistress(l)

\* C13 as stated: whenever the generator is unconfigured, raises, or returns
\* a malformed or empty response while an alert is being built, the alert is
\* still created and no error propagates: its message is the template naming
\* the child, both task names and the top selected document's source (or a
\* fixed phrase when no document was selected).
C13_Original ==
    [][ (last'.op = "log_task_response" /\ last'.status # 404 /\ last' # last
            /\ AlertDue /\ GeneratorFailed(last'.response))
        => /\ last'.status = 200
           /\ \E a \in parent_alerts' \ parent_alerts :
                 /\ a.id = last'.ret
                 /\ a.message.kind = "template"
                 /\ a.message.child = last'.child
                 /\ \E p \in task_emotion_logs :
                       /\ p.id = a.previous_log_id
                       /\ {a.message.tasks[i] : i \in DOMAIN a.message.tasks}
                             = {last'.log.task_name, p.task_name}
                 /\ a.message.doc_hint = IF last'.docs = <<>> THEN "your support plan"
                                         ELSE last'.docs[1] ]_vars

\* ------------------------------------------------------------------------
\* The example scenario: A (5, sad), then B (2, happy), then C (stress 4)
\* ------------------------------------------------------------------------
IsLogA(l) == l.stress_level = 5 /\ l.emotion = "sad"

IsLogB(l) == l.stress_level = 2 /\ l.emotion = "happy"

\* the child has no alert and exactly the logs A then B, and the request
\* logs C with stress 4
ScenarioStep ==
    /\ last'.op = "log_task_response" /\ last'.status # 404 /\ last' # last
    /\ parent_alerts = {}
    /\ last'.log.stress_level = 4
    /\ \E A, B \in task_emotion_logs :
          /\ task_emotion_logs = {A, B}
          /\ A.child_id = last'.child /\ B.child_id = last'.child
          /\ IsLogA(A) /\ IsLogB(B)
          /\ A.created_at < B.created_at

\* C14 as stated: in the scenario exactly one alert exists after C, and it
\* refers to latest_log_id = C.id and previous_log_id = A.id.
C14_Original ==
    [][ ScenarioStep
        => \E a \in parent_alerts' :
              /\ parent_alerts' = {a}
              /\ a.latest_log_id = last'.log.id
              /\ \E A \in task_emotion_logs : IsLogA(A) /\ a.previous_log_id = A.id ]_vars

\* C14, amended: in the scenario the evaluation after C considers the pair
\* {C, B}, the two most recent logs; B does not qualify, so the request
\* succeeds, stores C and creates no alert.
C14_ScenarioCreatesNoAlert ==
    [][ ScenarioStep
        => /\ last'.status = 200
           /\ last'.log \in task_emotion_logs'
           /\ \E B \in task_emotion_logs :
                 /\ IsLogB(B)
                 /\ TwoMostRecent(Unconsumed(task_emotion_logs', parent_alerts, last'.child))
                       = {last'.log, B}
                 /\ ~HighDistress(B)
           /\ parent_alerts' = {}
           /\ last'.ret = 0 /\ ~last'.created ]_vars

C14_Witness ==
    /\ last.op = "log_task_response" /\ last.status = 200
    /\ last.log.stress_level = 4
    /\ parent_alerts = {}
    /\ Cardinality(task_emotion_logs) = 3
    /\ \E A, B \in task_emotion_logs :
          /\ IsLogA(A) /\ IsLogB(B)
          /\ A.created_at < B.created_at /\ B.created_at < last.log.created_at

\* ------------------------------------------------------------------------
\* Guidance
\* ------------------------------------------------------------------------
GuidanceStep(op) == last'.op = op /\ last'.status = 200

\* the generator returned a text that is not blank
Usable(response) ==
    /\ response.kind = "content" /\ response.type = "str"
    /\ \E i \in DOMAIN response.text : response.text[i] \notin Whitespace

\* t is s without its leading and trailing whitespace
Trimmed(t, s) ==
    /\ t # <<>>
    /\ t[1] \notin Whitespace /\ t[Len(t)] \notin Whitespace
    /\ \E k \in 1..Len(s) :
          /\ k + Len(t) - 1 <= Len(s)
          /\ SubSeq(s, k, k + Len(t) - 1) = t
          /\ \A i \in 1..Len(s) : (i < k \/ i > k + Len(t) - 1) => s[i] \in Whitespace

\* the profile of child c now carries guidance written from this response:
\* the generator's text when it is usable, otherwise the fallback text
Regenerated(c, response) ==
    /\ Cardinality(ProfileOf(child_profiles', c)) = 1
    /\ \A p \in ProfileOf(child_profiles', c) :
          /\ p.guidance # {}
          /\ \A g \in p.guidance :
                /\ \E i \in DOMAIN g.text : g.text[i] \notin Whitespace
                /\ IF Usable(response)
                   THEN g.kind = "generated" /\ Trimmed(g.text, response.text)
                   ELSE g.kind = "fallback" /\ g.child = c

\* the guidance refresh is called for a child that has a profile: by create,
\* by an update of an existing profile, by a fetch of a profile whose
\* guidance is empty
RefreshOfExistingProfile ==
    \/ GuidanceStep("create_child")
    \/ GuidanceStep("update_child_profile") /\ ProfileOf(child_profiles, last'.child) # {}
    \/ /\ GuidanceStep("get_child_profile")
       /\ \A p \in ProfileOf(child_profiles, last'.child) :
             \A g \in p.guidance : \A i \in DOMAIN g.text : g.text[i] \in Whitespace

\* C15: for a child that has a profile, every forced guidance refresh
\* overwrites the profile's guidance with a non-empty text, the generator's
\* text when it returns a non-empty answer and the fallback otherwise; a
\* generator failure never fails the owning create, update or fetch request.
C15_GuidanceOverwritten ==
    [][ /\ RefreshOfExistingProfile => Regenerated(last'.child, last'.response)
        /\ (last'.op \in {"create_child", "update_child_profile", "get_child_profile"}
              /\ last'.child \in children'
              /\ (last'.op = "get_child_profile" => ProfileOf(child_profiles, last'.child) # {}))
           => last'.status = 200 ]_vars

C15_Witness ==
    /\ last.op = "update_child_profile" /\ last.status = 200 /\ ~last.created
    /\ last.response.kind = "raises"
    /\ \E p \in ProfileOf(child_profiles, last.child) :
          \E g \in p.guidance : g.kind = "fallback"
    /\ \E p \in child_profiles : \E g \in p.guidance : g.kind = "generated"

SpeechStep == last'.op = "log_speech_button"

\* what the payload asks for: no key at all, or an increment below 1
NoKeyGiven(r) ==
    /\ \A i \in DOMAIN r.button_key : r.button_key[i] \in Whitespace
    /\ \A i \in DOMAIN r.label : r.label[i] \in Whitespace

IncrementBelowOne(r) == r.increment.kind = "int" /\ r.increment.value < 1

RowsOfPair(rows, pair) == {u \in rows : u.child_id = pair[1] /\ u.button_key = pair[2]}

\* C17: after any sequence of speech-button requests there is at most one
\* row per (child_id, normalized key), a row exists exactly for the pairs
\* with an accepted request, and its press_count is the sum of the increments
\* of the accepted requests for the pair (1 when none is given); a request
\* with an increment below 1 or with no key is rejected and changes nothing.
C17_PressCountIsSumOfIncrements ==
    [][ SpeechStep =>
        /\ \A u \in speech_button_usage' :
              /\ RowsOfPair(speech_button_usage', <<u.child_id, u.button_key>>) = {u}
              /\ <<u.child_id, u.button_key>> \in DOMAIN accepted_presses'
              /\ u.press_count = accepted_presses'[<<u.child_id, u.button_key>>]
        /\ \A pair \in DOMAIN accepted_presses' : RowsOfPair(speech_button_usage', pair) # {}
        /\ (NoKeyGiven(last') \/ IncrementBelowOne(last'))
           => /\ last'.status = 400
              /\ speech_button_usage' = speech_button_usage
              /\ accepted_presses' = accepted_presses ]_vars

\* the example: a first press of "yes" without an increment, then one of 3
C17_Witness ==
    /\ last.op = "log_speech_button" /\ last.status = 200
    /\ last.increment = [kind |-> "int", value |-> 3]
    /\ \E u \in speech_button_usage :
          /\ u.child_id = 1 /\ u.button_key = <<"y", "e", "s">>
          /\ u.press_count = 4
          /\ RowsOfPair(speech_button_usage, <<1, u.button_key>>) = {u}

\* ------------------------------------------------------------------------
\* Deleting a child
\* ------------------------------------------------------------------------
DeleteStep == last'.op = "delete_child" /\ last'.status = 200

OfChild(rows, c) == {r \in rows : r.child_id = c}

OfOthers(rows, c) == {r \in rows : r.child_id # c}

\* C18: after delete_child succeeds the child is gone and no ChildProfile,
\* Avatar, ChildEvent, TaskEmotionLog, LevelResultLog, ParentAlert,
\* ParentChatSession or ParentChatMessage row of that child remains, while
\* the rows of other children are unchanged.
C18_DeleteCascades ==
    [][ DeleteStep =>
        LET c == last'.child
        IN  /\ c \in children /\ children' = children \ {c}
            /\ OfChild(child_profiles', c) = {} /\ OfOthers(child_profiles', c) = OfOthers(child_profiles, c)
            /\ OfChild(avatars', c) = {} /\ OfOthers(avatars', c) = OfOthers(avatars, c)
            /\ OfChild(child_events', c) = {} /\ OfOthers(child_events', c) = OfOthers(child_events, c)
            /\ OfChild(task_emotion_logs', c) = {}
            /\ OfOthers(task_emotion_logs', c) = OfOthers(task_emotion_logs, c)
            /\ OfChild(level_result_logs', c) = {}
            /\ OfOthers(level_result_logs', c) = OfOthers(level_result_logs, c)
            /\ OfChild(parent_alerts', c) = {} /\ OfOthers(parent_alerts', c) = OfOthers(parent_alerts, c)
            /\ OfChild(parent_chat_sessions', c) = {}
            /\ OfOthers(parent_chat_sessions', c) = OfOthers(parent_chat_sessions, c)
            /\ OfChild(Range(parent_chat_messages'), c) = {}
            /\ OfOthers(Range(parent_chat_messages'), c) = OfOthers(Range(parent_chat_messages), c)
            /\ OfOthers(speech_button_usage', c) = OfOthers(speech_button_usage, c) ]_vars

\* child 1 was deleted after it had logs, an alert, a level result, an
\* event, a chat session with messages and an avatar, while child 2 keeps
\* its profile, its avatar and an event
C18_Witness ==
    /\ last.op = "delete_child" /\ last.status = 200 /\ last.child = 1
    /\ children = {2}
    /\ nextLogId > 2 /\ task_emotion_logs = {}
    /\ nextAlertId > 1 /\ parent_alerts = {}
    /\ nextLevelLogId > 1 /\ level_result_logs = {}
    /\ nextSessionId > 1 /\ parent_chat_sessions = {}
    /\ nextMessageId > 1 /\ parent_chat_messages = <<>>
    /\ OfChild(child_profiles, 2) # {} /\ OfChild(child_profiles, 1) = {}
    /\ OfChild(avatars, 2) # {}
    /\ \E e \in child_events : e.child_id = 2 /\ e.id > 1

\* ------------------------------------------------------------------------
\* General questions
\* ------------------------------------------------------------------------
\* the positions of the returned chunks that carry a non-empty text
UsableChunks(result) ==
    {i \in DOMAIN result.ids : i \in DOMAIN result.documents /\ result.documents[i] # <<>>}

\* C19: a response of answer_general_question is a fallback (fallback true,
\* no sources, a note) exactly when the lookup yields no chunk with a
\* non-empty text, and otherwise is no fallback and has the chunks with a
\* non-empty text, in order, as its sources; an empty question is rejected
\* before any external call.
C19_FallbackIffNoUsableChunk ==
    last.op = "answer_general_question" =>
        LET r == last.response
        IN  /\ (\A i \in DOMAIN last.question : last.question[i] \in Whitespace)
               => r.status = "ValueError" /\ r.calls = <<>>
            /\ r.status = "ok" =>
                  /\ r.fallback <=> UsableChunks(last.result) = {}
                  /\ r.fallback => r.sources = <<>> /\ r.note # {}
                  /\ ~r.fallback =>
                        /\ r.note = {}
                        /\ Len(r.sources) = Cardinality(UsableChunks(last.result))
                        /\ \A k \in DOMAIN r.sources :
                              /\ r.sources[k].id \in UsableChunks(last.result)
                              /\ r.sources[k].text = last.result.documents[r.sources[k].id]
                              /\ \A j \in DOMAIN r.sources :
                                    j < k => r.sources[j].id < r.sources[k].id

\* a fallback although chunks came back (none with a text), and elsewhere a
\* blank question turned away
C19_Witness ==
    /\ last.op = "answer_general_question"
    /\ last.response.status = "ok" /\ last.response.fallback
    /\ Len(last.result.ids) = 2 /\ Len(last.result.documents) = 1

\* ------------------------------------------------------------------------
\* The transactional scope of a task-response request
\* ------------------------------------------------------------------------
LogIds(logs) == {l.id : l \in logs}

\* the committed alerts refer only to committed logs
AlertsReferToCommittedLogs(alerts, logs) ==
    \A a \in alerts : {a.latest_log_id, a.previous_log_id} \subseteq LogIds(logs)

\* C20: a task-response request commits its TaskEmotionLog and the
\* ParentAlert of its evaluation in one step or not at all: every step
\* that changes the committed logs or alerts adds exactly the log of one
\* request and the alert (if any) its evaluation added, both in that one
\* step; no committed alert refers to a log that is not committed; a
\* request that raises leaves the store unchanged and its log is never
\* committed.
C20_AtomicCommitOrRollback ==
    [][ /\ AlertsReferToCommittedLogs(parent_alerts', task_emotion_logs')
        /\ (task_emotion_logs' # task_emotion_logs \/ parent_alerts' # parent_alerts)
           => /\ last'.op = "log_task_response" /\ last'.status = 200
              /\ task_emotion_logs \subseteq task_emotion_logs'
              /\ parent_alerts \subseteq parent_alerts'
              /\ Cardinality(task_emotion_logs' \ task_emotion_logs) = 1
              /\ Cardinality(parent_alerts' \ parent_alerts) <= 1
              /\ \E t \in DOMAIN txn :
                    /\ txn'[t].pc = "done" /\ txn[t].pc # "done"
                    /\ task_emotion_logs' \ task_emotion_logs = txn[t].log
                    /\ parent_alerts' \ parent_alerts = txn[t].alert
        /\ \A t \in DOMAIN txn :
              txn'[t].pc = "aborted"
              => /\ txn'[t].log \cap task_emotion_logs' = {}
                 /\ txn[t].pc = "raised"
                    => /\ last'.status = 500
                       /\ task_emotion_logs' = task_emotion_logs
                       /\ parent_alerts' = parent_alerts ]_vars

\* one request was rolled back while building its message, a later one
\* committed its log together with the alert
C20_Witness ==
    /\ \E t \in DOMAIN txn : txn[t].pc = "aborted" /\ txn[t].log # {}
    /\ last.op = "log_task_response" /\ last.status = 200 /\ last.created
    /\ \E a \in parent_alerts :
          a.id = last.ret /\ last.log_id \in {a.latest_log_id, a.previous_log_id}

\* ------------------------------------------------------------------------
\* The fallback snapshot of the chat orchestrator
\* ------------------------------------------------------------------------
\* the translation call produced a statement that passes the safety gate
SafeStatement(c) ==
    /\ c.op = "parent_chat" /\ c.translation_calls = 1 /\ c.generated # {}
    /\ ~IsNoQuery(Generated(c))
    /\ ~GateViolation(Generated(c))

\* the generator failed or declined, or the safe statement returned no row
DeclinedOrEmpty(c) ==
    /\ c.op = "parent_chat" /\ c.translation_calls = 1
    /\ \/ c.generated = {}
       \/ IsNoQuery(Generated(c))
       \/ SafeStatement(c) /\ c.executed = {0}

\* the reply is built from the snapshot of the child: narrated when the
\* snapshot has rows, the fixed message (or the generation-failed message
\* when the generator gave nothing) without a narration call when it is empty
FellBackToSnapshot ==
    /\ chat'.status = 200
    /\ PairAppended
    /\ IF SnapshotEmpty(chat'.child)
       THEN /\ ~chat'.snapshot_used
            /\ chat'.narration_calls = 0
            /\ chat'.answer = IF chat'.generated = {} THEN MSG_GENERATION_FAILED
                              ELSE MSG_NOT_ENOUGH_DATA
       ELSE /\ chat'.snapshot_used
            /\ chat'.narration_calls = 1
            /\ chat'.sql = {}
            /\ chat'.rows > 0

AssistantMessage == parent_chat_messages'[Len(parent_chat_messages')]

\* the number of entries of the snapshot of a child: up to five rows of each
\* table and, when there is any, the child record in front
SnapshotSize(child_id) ==
    LET n == Min2(5, Cardinality(OfChild(task_emotion_logs, child_id)))
             + Min2(5, Cardinality(OfChild(level_result_logs, child_id)))
             + Min2(5, Cardinality(OfChild(child_events, child_id)))
             + Min2(5, Cardinality(OfChild(speech_button_usage, child_id)))
    IN  IF n > 0 /\ child_id \in children THEN n + 1 ELSE n

\* the number of rows the reply was built from
RowsObtained(c) ==
    IF c.snapshot_used THEN SnapshotSize(c.child)
    ELSE IF SafeStatement(c) /\ c.executed # {} THEN CHOOSE n \in c.executed : TRUE
    ELSE 0

\* the statement item: null for the snapshot or when nothing was executed
StatementItem(c) == IF c.snapshot_used THEN {} ELSE c.db_executed

\* executed statement, row count and snapshot flag as the claim states them
ThreeItems(m, c) ==
    /\ {"executed_sql", "row_count", "fallback_snapshot"} \subseteq m.keys
    /\ m.executed_sql = StatementItem(c)
    /\ m.row_count = RowsObtained(c)
    /\ m.fallback_snapshot = c.snapshot_used
    /\ c.snapshot_used <=> (~SnapshotEmpty(c.child) /\ DeclinedOrEmpty(c))

\* the reason code of a reply that was not narrated
ReasonOf(c) ==
    IF c.generated = {} THEN "sql_generation_failed"
    ELSE IF IsNoQuery(Generated(c)) THEN "no_query"
    ELSE "empty_rows"

\* C22 as stated: every assistant message persisted by the orchestrator
\* carries the executed statement (null when none was executed or the
\* snapshot was used), the number of rows obtained, the snapshot flag, and a
\* reason code.
C22_Original ==
    [][ (ChatStep /\ chat'.status = 200)
        => /\ ThreeItems(AssistantMessage.message_meta, chat')
           /\ "reason" \in AssistantMessage.message_meta.keys ]_vars

\* C22 amended: every assistant message carries the executed statement
\* (null when none was executed or the snapshot was used), the number of
\* rows obtained (not the preview of 25) and the snapshot flag; a reason
\* code is carried exactly by the replies that were not narrated
\* (sql_generation_failed, no_query, empty_rows), while a narrated reply
\* carries the row preview and no reason.
C22_ReasonOnlyWhenNotNarrated ==
    [][ (ChatStep /\ chat'.status = 200)
        => /\ AssistantRole(AssistantMessage)
           /\ ThreeItems(AssistantMessage.message_meta, chat')
           /\ IF chat'.narration_calls = 0
              THEN /\ "reason" \in AssistantMessage.message_meta.keys
                   /\ "rows_preview" \notin AssistantMessage.message_meta.keys
                   /\ AssistantMessage.message_meta.reason = ReasonOf(chat')
                   /\ AssistantMessage.message_meta.row_count = 0
              ELSE /\ "reason" \notin AssistantMessage.message_meta.keys
                   /\ "rows_preview" \in AssistantMessage.message_meta.keys
                   /\ AssistantMessage.message_meta.rows_preview
                        = Min2(RowsObtained(chat'), 25) ]_vars

\* a narrated reply over more rows than the preview holds
C22_Witness ==
    /\ chat.op = "parent_chat" /\ chat.status = 200
    /\ chat.narration_calls = 1
    /\ ~chat.snapshot_used
    /\ chat.rows > 25
    /\ parent_chat_messages[Len(parent_chat_messages)].message_meta.row_count = chat.rows
    /\ parent_chat_messages[Len(parent_chat_messages)].message_meta.rows_preview = 25

\* ------------------------------------------------------------------------
\* Age ranges of reference documents (services/distress_alert_service.py)
\* ------------------------------------------------------------------------
Digits == <<"0", "1", "2", "3", "4", "5", "6", "7", "8", "9">>

IsDigit(c) == \E i \in DOMAIN Digits : Digits[i] = c

DigitValue(c) == (CHOOSE i \in DOMAIN Digits : Digits[i] = c) - 1

RECURSIVE DigitsValue(_)
DigitsValue(str) ==
    IF str = <<>> THEN 0
    ELSE 10 * DigitsValue(SubSeq(str, 1, Len(str) - 1)) + DigitValue(str[Len(str)])

\* int(text): surrounding whitespace is dropped, one sign may lead, the
\* rest must be one or more digits; the empty set stands for ValueError
ParseInt(str) ==
    LET t == Strip(str)
        signed == t # <<>> /\ t[1] \in {"+", "-"}
        body == IF signed THEN Tail(t) ELSE t
    IN  IF body = <<>> \/ \E i \in DOMAIN body : ~IsDigit(body[i]) THEN {}
        ELSE IF signed /\ t[1] = "-" THEN {0 - DigitsValue(body)}
        ELSE {DigitsValue(body)}

\* raw_range.replace("+", "")
WithoutPlus(str) == SelectSeq(str, LAMBDA c : c # "+")

\* position of the first "-"
FirstHyphen(str) == CHOOSE i \in DOMAIN str : str[i] = "-" /\ \A j \in 1..(i - 1) : str[j] # "-"

\* _age_in_range: a missing or zero age and an empty range match nothing;
\* ValueError of int() gives False
_age_in_range(age, raw_range) ==
    IF age = 0 \/ raw_range = <<>> THEN FALSE
    ELSE LET stripped == Strip(raw_range)
         IN  IF "+" \in Range(stripped)
             THEN LET base == ParseInt(WithoutPlus(stripped))
                  IN  base # {} /\ \A b \in base : age >= b
             ELSE IF "-" \in Range(stripped)
             THEN LET i == FirstHyphen(stripped)
                      start == ParseInt(SubSeq(stripped, 1, i - 1))
                      end == ParseInt(SubSeq(stripped, i + 1, Len(stripped)))
                  IN  /\ start # {} /\ end # {}
                      /\ \A s \in start, e \in end : s <= age /\ age <= e
             ELSE LET exact == ParseInt(stripped)
                  IN  exact # {} /\ \A n \in exact : age = n

\* ------------------------------------------------------------------------
\* Reference documents of an alert (services/distress_alert_service.py)
\* ------------------------------------------------------------------------
DEFAULT_DOC_LIMIT == 3

KW_STRESS == <<"s", "t", "r", "e", "s", "s">>

KW_EMOTION == <<"e", "m", "o", "t", "i", "o", "n">>

KW_TASK == <<"t", "a", "s", "k">>

KW_SUPPORT == <<"s", "u", "p", "p", "o", "r", "t">>

\* _keywords_from_logs: the set the list is built from
_keywords_from_logs(logs) ==
    {KW_STRESS, KW_EMOTION, KW_TASK}
    \cup (IF \E i \in DOMAIN logs : logs[i].stress_level >= STRESS_LEVEL_THRESHOLD
          THEN {KW_STRESS} ELSE {})
    \cup (IF \E i \in DOMAIN logs : LowerLabel(logs[i].emotion) \in NEGATIVE_EMOTIONS
          THEN {KW_EMOTION, KW_SUPPORT} ELSE {})

\* list(keywords): the elements of the set in some order
Orderings(S) ==
    {f \in [1..Cardinality(S) -> S] : \A x \in S : \E i \in DOMAIN f : f[i] = x}

\* the documents, ages and logs of the selections
NoDoc == [topics |-> {}, skills_targeted |-> {}, emotion |-> "", support_context |-> "",
          age_range |-> <<>>, recommendation |-> <<>>]

\* two documents that tie, one whose score depends on the age of the child,
\* and one that scores only when the logs add the keyword "support"
DocKinds ==
    { [NoDoc EXCEPT !.topics = {"behavior_support"}],
      [NoDoc EXCEPT !.skills_targeted = {"behavior"}, !.emotion = "Sad"],
      [NoDoc EXCEPT !.age_range = <<"5", "+">>, !.support_context = "therapy"],
      [NoDoc EXCEPT !.recommendation = <<"S", "u", "p", "p", "o", "r", "t">>] }

DocFields == {"topics", "skills_targeted", "emotion", "support_context", "age_range",
              "recommendation", "id"}

\* message.json: up to MaxDocs documents, each with its position as id
Corpora ==
    UNION { { [i \in 1..n |-> [f \in DocFields |-> IF f = "id" THEN i ELSE kinds[i][f]]]
              : kinds \in [1..n -> DocKinds] } : n \in 0..MaxDocs }

AgeInputs == {0, 6}

LogPairs ==
    { <<[stress_level |-> 5, emotion |-> "happy"], [stress_level |-> 4, emotion |-> "neutral"]>>,
      <<[stress_level |-> 2, emotion |-> "Sad"], [stress_level |-> 5, emotion |-> "sad"]>> }

\* "keyword in recommendation" and the age test, worked out once for the
\* documents, keywords and ages of the selections
Mentions ==
    [r \in {d.recommendation : d \in DocKinds} |->
        {k \in {KW_STRESS, KW_EMOTION, KW_TASK, KW_SUPPORT} : Contains(Lower(r), k)}]

AgeMatches ==
    [age \in AgeInputs |-> {r \in {d.age_range : d \in DocKinds} : _age_in_range(age, r)}]

\* the score of one document, in half points
DocScore(doc, child_age, keywords) ==
    (IF doc.topics \cap {"emotional_regulation", "behavior_support"} # {} THEN 4 ELSE 0)
    + (IF "family_support" \in doc.topics THEN 1 ELSE 0)
    + (IF doc.skills_targeted \cap {"emotional_regulation", "behavior"} # {} THEN 2 ELSE 0)
    + (IF LowerLabel(doc.emotion) \in {"sad", "overwhelmed", "general_wellbeing", "anxious"}
       THEN 2 ELSE 0)
    + (IF doc.support_context \in {"home_routine", "general_guidance", "therapy", "community"}
       THEN 1 ELSE 0)
    + (IF doc.age_range \in AgeMatches[child_age] THEN 2 ELSE 0)
    + (IF \E k \in DOMAIN keywords : keywords[k] \in Mentions[doc.recommendation]
       THEN 1 ELSE 0)

\* the loop over the documents: the pairs (score, doc) with score > 0
ScoredDocs(docs, child_age, keywords) ==
    LET positive == SelectSeq(docs, LAMBDA d : DocScore(d, child_age, keywords) > 0)
    IN  [i \in DOMAIN positive |-> <<DocScore(positive[i], child_age, keywords), positive[i]>>]

\* equal scores left in the reverse of their order
SortedByScore_ties_reversed(scored) ==
    [k \in DOMAIN scored |->
        scored[CHOOSE i \in DOMAIN scored :
                  Cardinality({j \in DOMAIN scored :
                                  \/ scored[j][1] > scored[i][1]
                                  \/ (scored[j][1] = scored[i][1] /\ j > i)}) = k - 1]]

\* scored.sort(key=score, reverse=True): descending and stable
SortedByScore(scored) ==
    [k \in DOMAIN scored |->
        scored[CHOOSE i \in DOMAIN scored :
                  Cardinality({j \in DOMAIN scored :
                                  \/ scored[j][1] > scored[i][1]
                                  \/ (scored[j][1] = scored[i][1] /\ j < i)}) = k - 1]]

_select_reference_docs(docs, child_age, logs, keywords, limit) ==
    IF docs = <<>> THEN <<>>
    ELSE LET sorted == SortedByScore(ScoredDocs(docs, child_age, keywords))
         IN  [i \in 1..Min2(limit, Len(sorted)) |-> sorted[i][2]]

\* ------------------------------------------------------------------------
\* Selections over one loaded corpus
\* ------------------------------------------------------------------------
\* the corpus is loaded once and cached (_load_message_docs)
SelectInit ==
    /\ children = {1}
    /\ nextChildId = 2
    /\ task_emotion_logs = {}
    /\ nextLogId = 1
    /\ parent_alerts = {}
    /\ nextAlertId = 1
    /\ clock = 0
    /\ evaluations = 0
    /\ \E docs \in Corpora :
          last = [op |-> "_load_message_docs", child |-> 0, status |-> 200, log_id |-> 0,
                  ret |-> 0, created |-> FALSE, docs |-> docs]
    /\ txn = [t \in 1..MaxTxn |-> IdleTxn]
    /\ commitSeq = 0
    /\ alertSpan = <<>>
    /\ level_result_logs = {}
    /\ nextLevelLogId = 1
    /\ child_events = {}
    /\ speech_button_usage = {}
    /\ child_profiles = CreatedProfiles({1})
    /\ avatars = {}
    /\ accepted_presses = <<>>
    /\ parent_chat_sessions = {}
    /\ nextSessionId = 1
    /\ parent_chat_messages = <<>>
    /\ nextMessageId = 1
    /\ chat = NoChat

\* one call of _select_reference_docs over the cached corpus; keywords is
\* the list made of the keyword set, in the order the set happens to yield
select_reference_docs(child_age, logs, keywords) ==
    /\ \E selected \in {_select_reference_docs(last.docs, child_age, logs, keywords,
                                                DEFAULT_DOC_LIMIT)} :
          last' = [op |-> "_select_reference_docs", child |-> 0, status |-> 200, log_id |-> 0,
                   ret |-> 0, created |-> FALSE, docs |-> last.docs,
                   child_age |-> child_age, logs |-> logs, selected |-> selected]
    /\ UNCHANGED <<children, nextChildId, task_emotion_logs, nextLogId, parent_alerts,
                   nextAlertId, clock, evaluations, raceVars, storeVars, chatVars>>

\* list(keywords) for each pair of logs: every order of the keyword set
KeywordLists == [logs \in LogPairs |-> Orderings(_keywords_from_logs(logs))]

SelectNext ==
    \E child_age \in AgeInputs, logs \in LogPairs :
        \E keywords \in KeywordLists[logs] :
            select_reference_docs(child_age, logs, keywords)

SelectSpec == SelectInit /\ [][SelectNext]_vars

\* ------------------------------------------------------------------------
\* Selection of reference documents
\* ------------------------------------------------------------------------
IsSelection(l) == l.op = "_select_reference_docs"

\* the relevance of a document for the age and the logs of a call, counted
\* in half points: topic 2, family support 0.5, skill 1, emotion tag 1,
\* support context 0.5, age range 1, keyword 0.5
Relevance(d, l) ==
    (IF d.topics \cap {"emotional_regulation", "behavior_support"} # {} THEN 4 ELSE 0)
    + (IF "family_support" \in d.topics THEN 1 ELSE 0)
    + (IF d.skills_targeted \cap {"emotional_regulation", "behavior"} # {} THEN 2 ELSE 0)
    + (IF d.emotion \in {"sad", "Sad", "overwhelmed", "general_wellbeing", "anxious"}
       THEN 2 ELSE 0)
    + (IF d.support_context \in {"home_routine", "general_guidance", "therapy", "community"}
       THEN 1 ELSE 0)
    + (IF _age_in_range(l.child_age, d.age_range) THEN 2 ELSE 0)
    + (IF \E k \in _keywords_from_logs(l.logs) : Occurs(k, Lower(d.recommendation))
       THEN 1 ELSE 0)

\* the documents of the corpus that score above zero
Relevant(l) == {d \in Range(l.docs) : Relevance(d, l) > 0}

\* d comes before e in the ranking: higher score, or equal score and
\* earlier in the corpus
RanksBefore(d, e, l) ==
    \/ Relevance(d, l) > Relevance(e, l)
    \/ (Relevance(d, l) = Relevance(e, l) /\ d.id < e.id)

\* the result holds only relevant documents, the three that rank first (or
\* all of them when fewer), in ranking order
TopThreeInOrder(l) ==
    /\ Range(l.selected) \subseteq Relevant(l)
    /\ Len(l.selected) = Min2(3, Cardinality(Relevant(l)))
    /\ \A i, j \in DOMAIN l.selected : i < j => RanksBefore(l.selected[i], l.selected[j], l)
    /\ \A d \in Relevant(l) \ Range(l.selected) :
          \A i \in DOMAIN l.selected : RanksBefore(l.selected[i], d, l)

\* C23: for a fixed document list, child age and log pair,
\* _select_reference_docs returns the same result on every call; the result
\* contains only documents with score > 0, at most 3 of them (the three that
\* rank first), in descending score order, with equal-score documents kept
\* in their original corpus order.
C23_SelectionDeterministicAndOrdered ==
    /\ [](IsSelection(last) => TopThreeInOrder(last))
    /\ [][ (IsSelection(last) /\ IsSelection(last')
              /\ last'.docs = last.docs /\ last'.child_age = last.child_age
              /\ last'.logs = last.logs)
           => last'.selected = last.selected ]_vars

\* four relevant documents of which three were kept; the sort moved a later
\* document to the front and left two equal-score documents in corpus order
C23_Witness ==
    /\ IsSelection(last)
    /\ Cardinality(Relevant(last)) = 4
    /\ Len(last.selected) = 3
    /\ last.selected[1].id > last.selected[2].id
    /\ Relevance(last.selected[2], last) = Relevance(last.selected[3], last)
    /\ last.selected[2].id < last.selected[3].id

\* ------------------------------------------------------------------------
\* Calls of _age_in_range
\* ------------------------------------------------------------------------
\* ages of a child: int(payload["age"]) of the profile, zero included
AgeValues == 0..MaxAge

\* age_range texts of a document: the three forms, with and without
\* surrounding blanks, and texts that are none of them
RangeTexts ==
    { <<>>, <<" ">>, <<"x">>,
      <<"5", "+">>, <<" ", "5", "+", " ">>, <<"1", "0", "+">>, <<"0", "+">>,
      <<"3", "-", "7">>, <<"0", "-", "3">>, <<"7", "-", "3">>,
      <<"6">>, <<"0">>,
      <<"+", "5">>, <<"5", "+", "+">>, <<"5", "+", "3">>, <<"+">>,
      <<"3", "-">>, <<"-", "3">>, <<"3", "-", "x">>, <<"3", "-", "7", "-", "9">> }

\* one call of _age_in_range; last keeps the call and its result
age_in_range(age, raw_range) ==
    /\ last' = [op |-> "_age_in_range", child |-> 0, status |-> 200, log_id |-> 0,
                ret |-> 0, created |-> FALSE, age |-> age, raw_range |-> raw_range,
                matches |-> _age_in_range(age, raw_range)]
    /\ UNCHANGED <<children, nextChildId, task_emotion_logs, nextLogId, parent_alerts,
                   nextAlertId, clock, evaluations, raceVars, storeVars, chatVars>>

AgeNext == \E age \in AgeValues, raw_range \in RangeTexts : age_in_range(age, raw_range)

AgeSpec == Init /\ [][AgeNext]_vars

\* ------------------------------------------------------------------------
\* Age-range matching
\* ------------------------------------------------------------------------
\* a number: one or more digits
IsNumber(str) == str # <<>> /\ \A i \in DOMAIN str : IsDigit(str[i])

\* "N+"
IsOpenRange(str) == Len(str) >= 2 /\ str[Len(str)] = "+" /\ IsNumber(SubSeq(str, 1, Len(str) - 1))

\* "N-M"
IsClosedRange(str) ==
    \E i \in DOMAIN str :
        /\ str[i] = "-"
        /\ IsNumber(SubSeq(str, 1, i - 1))
        /\ IsNumber(SubSeq(str, i + 1, Len(str)))

\* the ages the range stands for, as the claim reads it
RangeMatches(age, str) ==
    IF IsOpenRange(str) THEN age >= DigitsValue(SubSeq(str, 1, Len(str) - 1))
    ELSE IF IsClosedRange(str)
    THEN \E i \in DOMAIN str :
            /\ str[i] = "-"
            /\ DigitsValue(SubSeq(str, 1, i - 1)) <= age
            /\ age <= DigitsValue(SubSeq(str, i + 1, Len(str)))
    ELSE IF IsNumber(str) THEN age = DigitsValue(str)
    ELSE FALSE

\* C24: for every age and range string, "N+" matches exactly the ages >= N,
\* "N-M" matches exactly the ages in [N, M], a bare "N" matches only age N,
\* and a malformed or empty range matches no age (the range is read without
\* its surrounding blanks).
C24_Original ==
    (last.op = "_age_in_range")
    => (last.matches <=> RangeMatches(last.age, Strip(last.raw_range)))

\* ------------------------------------------------------------------------
\* Consumption of logs by alerts
\* ------------------------------------------------------------------------
\* the log ids an alert refers to
ConsumedBy(a) == {a.latest_log_id, a.previous_log_id}

\* the logs of the child with an id above the high-water mark of its alerts
FreshLogs(logs, alerts, c) == {l \in logs : l.child_id = c /\ l.id > HighWater(alerts, c)}

\* C25: each TaskEmotionLog is consumed by at most one alert: over any
\* sequence of sequential log insertions and evaluations, no log id appears
\* in two different ParentAlert rows (nor twice in one); once a child has an
\* alert, an evaluation that finds a single log above the high-water mark
\* raises nothing, and every new alert refers to two high-distress logs
\* above the high-water mark.
C25_LogConsumedAtMostOnce ==
    /\ [](\A a \in parent_alerts :
             /\ a.latest_log_id # a.previous_log_id
             /\ \A b \in parent_alerts : a # b => ConsumedBy(a) \cap ConsumedBy(b) = {})
    /\ [][ /\ (EvaluationStep
                /\ HighWater(parent_alerts, last'.child) > 0
                /\ Cardinality(FreshLogs(task_emotion_logs', parent_alerts, last'.child)) = 1)
              => (parent_alerts' = parent_alerts /\ last'.ret = 0)
           /\ \A a \in parent_alerts' \ parent_alerts :
                 \E l1, l2 \in FreshLogs(task_emotion_logs', parent_alerts, a.child_id) :
                     /\ l1.id = a.latest_log_id /\ l2.id = a.previous_log_id
                     /\ l1 # l2
                     /\ HighDistress(l1) /\ HighDistress(l2) ]_vars

\* four high-distress logs of one child in a row: the third raised nothing
\* and the fourth raised the second alert, on the third and fourth log
C25_Witness ==
    /\ last.op = "log_task_response" /\ last.created
    /\ \E c \in children :
          /\ Cardinality({l \in task_emotion_logs : l.child_id = c}) = 4
          /\ \A l \in task_emotion_logs : l.child_id = c => HighDistress(l)
          /\ Cardinality({a \in parent_alerts : a.child_id = c}) = 2
          /\ \E a \in parent_alerts : a.id = last.ret /\ a.child_id = c

\* ------------------------------------------------------------------------
\* Alerts of a parent (routes/parent_routes.py)
\* ------------------------------------------------------------------------
\* bool(data.get("acknowledged", True)) of the request body
AcknowledgedValue(raw) ==
    CASE raw = "absent" -> TRUE
      [] raw = "true" -> TRUE
      [] raw = "false" -> FALSE
      [] raw = "zero" -> FALSE
      [] raw = "text false" -> TRUE

\* POST /parent/alerts/<alert_id>/acknowledge
acknowledge_alert(alert_id, raw) ==
    /\ IF \A a \in parent_alerts : a.id # alert_id
       THEN /\ last' = [op |-> "acknowledge_alert", child |-> 0, status |-> 404, log_id |-> 0,
                        ret |-> 0, created |-> FALSE, alert_id |-> alert_id, raw |-> raw]
            /\ UNCHANGED parent_alerts
       ELSE \E alert \in {a \in parent_alerts : a.id = alert_id} :
               /\ parent_alerts' = (parent_alerts \ {alert})
                                   \cup {[alert EXCEPT !.acknowledged = AcknowledgedValue(raw)]}
               /\ last' = [op |-> "acknowledge_alert", child |-> alert.child_id,
                           status |-> 200, log_id |-> 0, ret |-> alert.id, created |-> FALSE,
                           alert_id |-> alert_id, raw |-> raw]
    /\ UNCHANGED <<children, nextChildId, task_emotion_logs, nextLogId, nextAlertId, clock,
                   evaluations, raceVars, storeVars, chatVars>>

\* max(1, min(50, int(limit))), 5 when the parameter is absent
AlertLimit(limit) ==
    IF limit = {} THEN 5 ELSE Max2(1, Min2(50, CHOOSE n \in limit : TRUE))

\* ORDER BY created_at DESC LIMIT n; alerts are created in the order of
\* their ids
RECURSIVE NewestAlerts(_, _)
NewestAlerts(alerts, n) ==
    IF n = 0 \/ alerts = {} THEN <<>>
    ELSE LET a == CHOOSE x \in alerts : \A y \in alerts : y.id <= x.id
         IN  <<a.id>> \o NewestAlerts(alerts \ {a}, n - 1)

\* GET /parent/child/<child_id>/alerts: reads only
list_child_alerts(child_id, include_acknowledged, limit) ==
    /\ IF child_id \notin children
       THEN last' = [op |-> "list_child_alerts", child |-> child_id, status |-> 404,
                     log_id |-> 0, ret |-> 0, created |-> FALSE,
                     include_acknowledged |-> include_acknowledged, listed |-> <<>>]
       ELSE last' = [op |-> "list_child_alerts", child |-> child_id, status |-> 200,
                     log_id |-> 0, ret |-> 0, created |-> FALSE,
                     include_acknowledged |-> include_acknowledged,
                     listed |-> NewestAlerts({a \in parent_alerts :
                                                 /\ a.child_id = child_id
                                                 /\ include_acknowledged \/ ~a.acknowledged},
                                             AlertLimit(limit))]
    /\ UNCHANGED <<children, nextChildId, task_emotion_logs, nextLogId, parent_alerts,
                   nextAlertId, clock, evaluations, raceVars, storeVars, chatVars>>

AcknowledgeInputs == {"absent", "true", "false", "zero", "text false"}

LimitInputs == {{}, {0}, {1}}

\* one child: task responses, evaluations, and the parent listing and
\* acknowledging the alerts
AckNext ==
    \/ \E i \in LogInputs : log_task_response(MaxLogs, 1, "puzzle", i[1], i[2], <<>>, UNCONFIGURED)
    \/ evaluate_call(1)
    \/ \E alert_id \in 1..2, raw \in AcknowledgeInputs : acknowledge_alert(alert_id, raw)
    \/ \E child_id \in 1..2, include_acknowledged \in BOOLEAN, limit \in LimitInputs :
            list_child_alerts(child_id, include_acknowledged, limit)

AckSpec == RaceInit /\ [][AckNext]_vars

\* ------------------------------------------------------------------------
\* Acknowledging an alert
\* ------------------------------------------------------------------------
AcknowledgeStep == last'.op = "acknowledge_alert" /\ last'.status = 200

\* the same alert up to its acknowledged flag
SameButFlag(a, b) ==
    /\ a.id = b.id /\ a.child_id = b.child_id
    /\ a.latest_log_id = b.latest_log_id /\ a.previous_log_id = b.previous_log_id
    /\ a.message = b.message

FailedChatStep ==
    /\ last'.op = "parent_chat"
    /\ chat'.status = 400
    /\ chat'.generated # {}

\* C27: a chat request that fails with an error leaves the store unchanged:
\* no message is persisted and, when session_id was omitted, the session
\* created at the start of the call is not left committed.
C27_Original ==
    [][FailedChatStep => /\ parent_chat_messages' = parent_chat_messages
                         /\ parent_chat_sessions' = parent_chat_sessions]_vars

\* ------------------------------------------------------------------------
\* log_speech_button as overlapping transactions.  Each request has a
\* session of its own: the query reads the committed rows, flush sends the
\* UPDATE or INSERT the session worked out from what it read, and leaving
\* the "with" block commits.  The store lets one session write at a time.
\* ------------------------------------------------------------------------
SPEECH_KEY == <<"y", "e", "s">>

SpeechIncrements == {1, 2}

IdleSpeechTxn == [pc |-> "idle", child |-> 0, button_key |-> <<>>, increment |-> 0,
                  usage |-> {}, pending |-> {}, status |-> 0]

SpeechTxns == 1..MaxSpeechTxn

\* the rows of one (child_id, button_key) pair
UsageOf(rows, child_id, button_key) ==
    {u \in rows : u.child_id = child_id /\ u.button_key = button_key}

\* the store before the requests: no row for the pair, or one row left by
\* an earlier accepted press
SpeechRaceInit ==
    /\ children = {1}
    /\ nextChildId = 2
    /\ task_emotion_logs = {}
    /\ nextLogId = 1
    /\ parent_alerts = {}
    /\ nextAlertId = 1
    /\ clock = 0
    /\ evaluations = 0
    /\ last = [op |-> "create_child", child |-> 1, status |-> 200, log_id |-> 0, ret |-> 0,
               created |-> FALSE]
    /\ txn = [t \in SpeechTxns |-> IdleSpeechTxn]
    /\ commitSeq = 0
    /\ alertSpan = <<>>
    /\ level_result_logs = {}
    /\ nextLevelLogId = 1
    /\ child_events = {}
    /\ \E prior \in {0, 1} :
          /\ speech_button_usage =
                IF prior = 0 THEN {}
                ELSE {[child_id |-> 1, button_key |-> SPEECH_KEY, label |-> SPEECH_KEY,
                       category |-> {}, press_count |-> prior]}
          /\ accepted_presses =
                IF prior = 0 THEN <<>> ELSE [x \in {<<1, SPEECH_KEY>>} |-> prior]
    /\ child_profiles = CreatedProfiles({1})
    /\ avatars = {}
    /\ parent_chat_sessions = {}
    /\ nextSessionId = 1
    /\ parent_chat_messages = <<>>
    /\ nextMessageId = 1
    /\ chat = NoChat

SpeechRaceUnchanged ==
    /\ UNCHANGED <<children, nextChildId, task_emotion_logs, nextLogId, parent_alerts,
                   nextAlertId, clock, evaluations>>
    /\ UNCHANGED <<level_result_logs, nextLevelLogId, child_events, child_profiles, avatars>>
    /\ UNCHANGED <<alertSpan, chatVars>>

SpeechOutcome(t, status) ==
    [op |-> "log_speech_button", child |-> txn[t].child, status |-> status, log_id |-> 0,
     ret |-> 0, created |-> txn[t].usage = {}, txn |-> t]

\* the validated request opens its session, loads the child and queries
\* the row of the pair
speech_query(t, child_id, button_key, increment) ==
    /\ txn[t].pc = "idle"
    /\ child_id \in children
    /\ txn' = [txn EXCEPT ![t] = [pc |-> "queried", child |-> child_id,
                                  button_key |-> button_key, increment |-> increment,
                                  usage |-> UsageOf(speech_button_usage, child_id, button_key),
                                  pending |-> {}, status |-> 0]]
    /\ UNCHANGED <<speech_button_usage, accepted_presses, last, commitSeq>>
    /\ SpeechRaceUnchanged

\* session.flush(): the row the session loaded gets the count the session
\* computed from it; a session that found no row inserts one, which the
\* unique constraint refuses when the pair has a row by now
speech_flush(t) ==
    /\ txn[t].pc = "queried"
    /\ \A u \in SpeechTxns : txn[u].pc # "flushed"
    /\ IF txn[t].usage = {} /\ UsageOf(speech_button_usage, txn[t].child, txn[t].button_key) # {}
       THEN /\ txn' = [txn EXCEPT ![t].pc = "failed", ![t].status = 500]
            /\ last' = SpeechOutcome(t, 500)
       ELSE /\ txn' = [txn EXCEPT
                          ![t].pc = "flushed",
                          ![t].status = 200,
                          ![t].pending =
                              IF txn[t].usage # {}
                              THEN {PressedRow(u, txn[t].increment, <<>>, <<>>) : u \in txn[t].usage}
                              ELSE {[child_id |-> txn[t].child, button_key |-> txn[t].button_key,
                                     label |-> txn[t].button_key, category |-> {},
                                     press_count |-> txn[t].increment]}]
            /\ UNCHANGED last
    /\ UNCHANGED <<speech_button_usage, accepted_presses, commitSeq>>
    /\ SpeechRaceUnchanged

\* the flush of a session that waited too long for the writing session
speech_flush_locked(t) ==
    /\ txn[t].pc = "queried"
    /\ \E u \in SpeechTxns : txn[u].pc = "flushed"
    /\ txn' = [txn EXCEPT ![t].pc = "failed", ![t].status = 500]
    /\ last' = SpeechOutcome(t, 500)
    /\ UNCHANGED <<speech_button_usage, accepted_presses, commitSeq>>
    /\ SpeechRaceUnchanged

\* the reply is built and the "with" block commits the session
speech_commit(t) ==
    /\ txn[t].pc = "flushed"
    /\ LET pair == <<txn[t].child, txn[t].button_key>>
       IN  /\ speech_button_usage' =
                 (speech_button_usage \ UsageOf(speech_button_usage, txn[t].child,
                                                txn[t].button_key))
                 \cup txn[t].pending
           /\ accepted_presses' =
                 [x \in DOMAIN accepted_presses \cup {pair} |->
                     (IF x \in DOMAIN accepted_presses THEN accepted_presses[x] ELSE 0)
                     + (IF x = pair THEN txn[t].increment ELSE 0)]
    /\ txn' = [txn EXCEPT ![t].pc = "done"]
    /\ last' = SpeechOutcome(t, 200)
    /\ commitSeq' = commitSeq + 1
    /\ SpeechRaceUnchanged

SpeechRaceNext ==
    \/ \E t \in SpeechTxns, i \in SpeechIncrements : speech_query(t, 1, SPEECH_KEY, i)
    \/ \E t \in SpeechTxns : speech_flush(t)
    \/ \E t \in SpeechTxns : speech_flush_locked(t)
    \/ \E t \in SpeechTxns : speech_commit(t)

SpeechRaceSpec == SpeechRaceInit /\ [][SpeechRaceNext]_vars

\* ------------------------------------------------------------------------
\* C28: overlapping speech-button requests
\* ------------------------------------------------------------------------
\* the requests that reported success
SucceededSpeechTxns == {t \in SpeechTxns : txn[t].pc = "done" /\ txn[t].status = 200}

\* C28: no speech-button increment is lost under concurrency: when two
\* requests for the same (child_id, button_key) run in overlapping
\* transactions and both report success, exactly one row exists for the
\* pair and its press_count is the prior count plus both increments.
\* accepted_presses holds the prior count plus the increments of the
\* requests that committed.
C28_Original ==
    \A t, u \in SucceededSpeechTxns :
        (t # u /\ txn[t].child = txn[u].child /\ txn[t].button_key = txn[u].button_key)
            => \E row \in speech_button_usage :
                   /\ UsageOf(speech_button_usage, txn[t].child, txn[t].button_key) = {row}
                   /\ row.press_count = accepted_presses[<<txn[t].child, txn[t].button_key>>]

\* ------------------------------------------------------------------------
\* C29: statements after a semicolon
\* ------------------------------------------------------------------------
\* a semicolon of the text is followed by something other than blanks and
\* semicolons
HasFurtherStatement(text) ==
    \E i \in 1..Len(text) :
        /\ text[i] = ";"
        /\ \E j \in (i + 1)..Len(text) : text[j] \notin {" ", ";"}

\* C29: the safety gate accepts only single statements: a candidate in
\* which a semicolon is followed by further statement text is rejected, so
\* the text handed to the database is always exactly one SELECT.
C29_Original ==
    /\ (chat.op = "parent_chat" /\ chat.translation_calls = 1 /\ chat.generated # {}
            /\ HasFurtherStatement(Generated(chat)))
       => /\ chat.status = 400
          /\ chat.error = "The generated query is not safe to execute."
          /\ chat.db_executed = {}
    /\ chat.op = "parent_chat"
       => \A statement \in chat.db_executed :
              StartsWithSelect(statement) /\ ~HasFurtherStatement(statement)

\* ------------------------------------------------------------------------
\* C30: rows of a deleted child
\* ------------------------------------------------------------------------
\* C30: no dangling child references: after delete_child succeeds, no row
\* of any child-scoped table, SpeechButtonUsage included, still carries the
\* id of the deleted child.
C30_Original ==
    (last.op = "delete_child" /\ last.status = 200)
    => \A rows \in {child_profiles, avatars, child_events, task_emotion_logs,
                    level_result_logs, parent_alerts, parent_chat_sessions,
                    Range(parent_chat_messages), speech_button_usage} :
           OfChild(rows, last.child) = {}

====
